---------------------------- MODULE Spec2Model ----------------------------
(***************************************************************************)
(* ChatLab AI agent: the Function-Calling loop of class Agent (blocking    *)
(* execute and streaming executeStream), its fallback parsers for <think>  *)
(* and <tool_call> tags, and the agent:runStream callback that forwards    *)
(* stream chunks to the window.                                            *)
(*                                                                         *)
(* A text is a sequence of symbols.  A symbol is one character, except    *)
(* that the name part of a tag ("<think", "</tool_call") is one symbol and *)
(* that each symbol of JsonSymbols stands for one whole run of characters  *)
(* between two tags.  A chunk of a stream ends between two symbols, so a   *)
(* tag arrives whole or cut before its ">".  Indices are JavaScript        *)
(* indices counted in symbols (0-based, -1 = not found).                   *)
(***************************************************************************)
EXTENDS Integers, Sequences, FiniteSets, TLC

\* ------------------------------------------------------------------------
\* Bounds of the model
\* ------------------------------------------------------------------------
\* largest value of config.maxToolRounds a turn is run with
MaxRounds == 1
\* chunks of a turn that carry only a part of what is left of a response
MaxSplits == 1
\* LLM calls of a turn that may end without executing a tool or returning
MaxIdleCalls == 1

\* ------------------------------------------------------------------------
\* JavaScript string primitives on texts
\* ------------------------------------------------------------------------
\* the symbols of the model that have upper-case letters
UpperToLower ==
  [c \in {"<TOOL_CALL", "</TOOL_CALL"} |->
     IF c = "<TOOL_CALL" THEN "<tool_call" ELSE "</tool_call"]

\* String.prototype.toLowerCase, one symbol
LowerChar(c) == IF c \in DOMAIN UpperToLower THEN UpperToLower[c] ELSE c

\* String.prototype.toLowerCase
ToLowerCase(s) == [i \in 1..Len(s) |-> LowerChar(s[i])]

\* pat occurs in s at JavaScript index i
OccursAt(s, pat, i) ==
  /\ i >= 0
  /\ i + Len(pat) <= Len(s)
  /\ \A k \in 1..Len(pat) : s[i + k] = pat[k]

\* String.prototype.indexOf(pat, from)
IndexOfFrom(s, pat, from) ==
  LET hits == {i \in from..(Len(s) - Len(pat)) : OccursAt(s, pat, i)}
  IN  IF hits = {} THEN -1 ELSE CHOOSE i \in hits : \A j \in hits : i <= j

\* String.prototype.indexOf(pat)
IndexOf(s, pat) == IndexOfFrom(s, pat, 0)

Min2(a, b) == IF a < b THEN a ELSE b

\* String.prototype.slice(a, b) for 0 <= a
Slice(s, a, b) ==
  LET e == Min2(b, Len(s))
  IN  IF a >= e THEN << >> ELSE SubSeq(s, a + 1, e)

\* String.prototype.slice(a)
SliceFrom(s, a) == Slice(s, a, Len(s))

WhiteSpace == {" ", "\n"}

\* String.prototype.trim
Trim(s) ==
  LET keep == {i \in 1..Len(s) : s[i] \notin WhiteSpace}
  IN  IF keep = {} THEN << >>
      ELSE SubSeq(s, CHOOSE i \in keep : \A j \in keep : i <= j,
                     CHOOSE i \in keep : \A j \in keep : i >= j)

\* String.prototype.replace(pat, '') with a string pattern: first occurrence
ReplaceFirst(s, pat) ==
  LET i == IndexOf(s, pat)
  IN  IF i = -1 THEN s ELSE Slice(s, 0, i) \o SliceFrom(s, i + Len(pat))

\* ------------------------------------------------------------------------
\* The tags
\* ------------------------------------------------------------------------
ThinkOpen == <<"<think", ">">>
ThinkClose == <<"</think", ">">>
ToolOpen == <<"<tool_call", ">">>
ToolClose == <<"</tool_call", ">">>

\* /<tag>/i.test(s)
TestTag(s, tag) == IndexOf(ToLowerCase(s), tag) # -1

\* The matches of /open([\s\S]*?)close/gi in s from JavaScript index from on,
\* left to right and not overlapping: each [start, inner, end), the match
\* being s[start..end) and inner the text between the two tags.
RECURSIVE TagMatchesFrom(_, _, _, _)
TagMatchesFrom(s, open, close, from) ==
  LET low == ToLowerCase(s)
      a == IndexOfFrom(low, open, from)
      b == IF a = -1 THEN -1 ELSE IndexOfFrom(low, close, a + Len(open))
  IN  IF a = -1 \/ b = -1 THEN << >>
      ELSE <<[start |-> a, inner |-> Slice(s, a + Len(open), b),
              end |-> b + Len(close)]>>
           \o TagMatchesFrom(s, open, close, b + Len(close))

TagMatches(s, open, close) == TagMatchesFrom(s, open, close, 0)

\* String.prototype.replace(/open[\s\S]*?close/gi, '')
RECURSIVE CutMatches(_, _, _)
CutMatches(s, ms, from) ==
  IF ms = << >> THEN SliceFrom(s, from)
  ELSE Slice(s, from, Head(ms).start) \o CutMatches(s, Tail(ms), Head(ms).end)

ReplaceAllTags(s, open, close) == CutMatches(s, TagMatches(s, open, close), 0)


\* ------------------------------------------------------------------------
\* JSON payloads.  Each symbol of JsonSymbols stands for the text written
\* next to it; JSONParse is JSON.parse on that text.
\* ------------------------------------------------------------------------
TripArguments == [keywords |-> <<"trip">>, sender_id |-> 7]

Undefined == [kind |-> "undefined", str |-> "", obj |-> << >>]
StringValue(s) == [kind |-> "string", str |-> s, obj |-> << >>]
ObjectValue(o) == [kind |-> "object", str |-> "", obj |-> o]

\* JSON.parse: ok = FALSE when it throws
JSONParse ==
  [j \in {"J_trip", "J_str", "J_noargs", "J_emptyargs"} |->
     CASE j = "J_trip" ->
            \* {"name":"search_messages","arguments":{"keywords":["trip"],"sender_id":7}}
            [ok |-> TRUE, name |-> StringValue("search_messages"),
             arguments |-> ObjectValue(TripArguments)]
       [] j = "J_str" ->
            \* {"name":"get_recent_messages","arguments":"{\"limit\":5}"}
            [ok |-> TRUE, name |-> StringValue("get_recent_messages"),
             arguments |-> StringValue("{\"limit\":5}")]
       [] j = "J_noargs" ->
            \* {"name":"search_messages"}
            [ok |-> TRUE, name |-> StringValue("search_messages"),
             arguments |-> Undefined]
       [] j = "J_emptyargs" ->
            \* {"name":"search_messages","arguments":""}
            [ok |-> TRUE, name |-> StringValue("search_messages"),
             arguments |-> StringValue("")]]

JsonSymbols == DOMAIN JSONParse

\* JSON.parse of a text: only a text that is one JSON symbol parses; any other
\* text between two tags of this model ("x", the empty text) throws
ParseJson(t) ==
  IF Len(t) = 1 /\ t[1] \in JsonSymbols THEN JSONParse[t[1]]
  ELSE [ok |-> FALSE, name |-> Undefined, arguments |-> Undefined]

\* JSON.stringify of an object
JSONStringify(o) ==
  CASE o = TripArguments -> "{\"keywords\":[\"trip\"],\"sender_id\":7}"
    [] OTHER -> "{}"

\* JavaScript truthiness of a parsed value
Truthy(v) == \/ v.kind = "object"
             \/ v.kind = "string" /\ v.str # ""

\* ------------------------------------------------------------------------
\* Fallback parsers
\* ------------------------------------------------------------------------
\* cleanContent: every match of the think regex on the original content is
\* removed from cleanContent by a string replace (first occurrence)
RECURSIVE RemoveEach(_, _, _)
RemoveEach(clean, content, ms) ==
  IF ms = << >> THEN clean
  ELSE RemoveEach(ReplaceFirst(clean, Slice(content, Head(ms).start, Head(ms).end)),
                  content, Tail(ms))

\* extractThinkingContent(content).cleanContent
extractThinkingContent(content) ==
  Trim(RemoveEach(content, content, TagMatches(content, ThinkOpen, ThinkClose)))

\* hasToolCallTags
hasToolCallTags(content) == TestTag(content, ToolOpen)

FallbackId(n) == [src |-> "fallback", n |-> n]

\* The loop of parseToolCallTags over the matches ms; n ids were drawn so far
RECURSIVE ParseMatches(_, _)
ParseMatches(ms, n) ==
  IF ms = << >> THEN << >>
  ELSE LET parsed == ParseJson(Trim(Head(ms).inner))
       IN  IF parsed.ok /\ Truthy(parsed.name) /\ Truthy(parsed.arguments)
           THEN <<[id |-> FallbackId(n + 1),
                   name |-> parsed.name.str,
                   arguments |-> IF parsed.arguments.kind = "string"
                                 THEN parsed.arguments.str
                                 ELSE JSONStringify(parsed.arguments.obj)]>>
                \o ParseMatches(Tail(ms), n + 1)
           ELSE ParseMatches(Tail(ms), n)

\* parseToolCallTags finding nothing
parseToolCallTagsNull(content, uuidsDrawn) == << >>

\* parseToolCallTags(content): the list of calls, << >> standing for null;
\* uuidsDrawn is the number of randomUUID() values drawn before
parseToolCallTags(content, uuidsDrawn) ==
  ParseMatches(TagMatches(content, ToolOpen, ToolClose), uuidsDrawn)


\* ------------------------------------------------------------------------
\* What the collaborators may answer
\* ------------------------------------------------------------------------
PlainText == <<"H", "i">>
ThinkText == ThinkOpen \o <<"r">> \o ThinkClose \o PlainText
OpenThinkText == <<"a">> \o ThinkOpen \o <<"r">>
TripText == <<"a">> \o ToolOpen \o <<"J_trip">> \o ToolClose
UpperTripText == <<"a", "<TOOL_CALL", ">", "J_trip", "</TOOL_CALL", ">">>
BadTagText == <<"a">> \o ToolOpen \o <<"x">> \o ToolClose
UnclosedThinkText == ThinkOpen
UpperBadTagText == <<"a", "<TOOL_CALL", ">", "x", "</TOOL_CALL", ">">>
MixedTagText ==
  ToolOpen \o <<"J_noargs">> \o ToolClose \o ToolOpen \o <<"J_str">> \o ToolClose
\* four blocks: no arguments, not JSON, and two with a name and arguments
BlocksText ==
  ToolOpen \o <<"J_noargs">> \o ToolClose \o ToolOpen \o <<"x">> \o ToolClose
    \o ToolOpen \o <<"J_str">> \o ToolClose \o ToolOpen \o <<"J_trip">> \o ToolClose
\* a think block, then blocks with no arguments and with text that is not JSON
ThinkBadTagText ==
  ThinkOpen \o <<"r">> \o ThinkClose \o <<"a">> \o ToolOpen \o <<"J_noargs">>
    \o ToolClose \o ToolOpen \o <<"x">> \o ToolClose

NoCalls == [present |-> FALSE, list |-> << >>]
Calls(l) == [present |-> TRUE, list |-> l]

LlmId(n) == [src |-> "llm", n |-> n]
SearchCall ==
  [id |-> LlmId(1), name |-> "search_messages",
   arguments |-> "{\"keywords\":[\"trip\"]}"]
StatsCall ==
  [id |-> LlmId(2), name |-> "get_member_stats", arguments |-> "{\"top_n\":"]

NoUsage ==
  [present |-> FALSE, promptTokens |-> 0, completionTokens |-> 0, totalTokens |-> 0]
SomeUsage ==
  [present |-> TRUE, promptTokens |-> 2, completionTokens |-> 1, totalTokens |-> 3]

Response(text, calls, reason, usage) ==
  [content |-> text, tool_calls |-> calls, finishReason |-> reason, usage |-> usage]

\* What the chunks of a chatStream() that ends with an isFinished chunk may add
\* up to
Responses ==
  { Response(t, NoCalls, "stop", SomeUsage) :
      t \in {PlainText, ThinkText, TripText, BadTagText, << >>} }
  \cup { Response(UpperBadTagText, NoCalls, "stop", NoUsage),
         Response(UnclosedThinkText, NoCalls, "stop", SomeUsage) }
  \cup { Response(PlainText, Calls(<<SearchCall, StatsCall>>), "tool_calls", SomeUsage),
         Response(PlainText, Calls(<<SearchCall>>), "stop", NoUsage),
         Response(<< >>, Calls(<< >>), "tool_calls", NoUsage) }

\* What chat() may resolve to
ChatResponses ==
  Responses \cup { Response(t, NoCalls, "stop", NoUsage) :
                     t \in {MixedTagText, UpperTripText, OpenThinkText, BlocksText,
                           ThinkBadTagText} }

\* What the chunks of a chatStream() that just ends may add up to
UnfinishedResponses ==
  { Response(PlainText, NoCalls, "none", NoUsage) }

\* What the LLM may answer when it is called without tools
SummaryResponses ==
  { Response(PlainText, NoCalls, "stop", SomeUsage),
    Response(ThinkText, NoCalls, "stop", NoUsage),
    Response(<< >>, NoCalls, "stop", NoUsage) }

StreamResponses ==
  { [r |-> r, finished |-> TRUE] : r \in Responses }
  \cup { [r |-> r, finished |-> FALSE] : r \in UnfinishedResponses }

\* A second menu, of responses that differ in their structured call list and
\* finish reason: a list with the finish reason tool_calls, a list with
\* another finish reason (over plain text and over a tool block), the finish
\* reason tool_calls without a list and with an empty one, no list at all
CallsResponses ==
  { Response(PlainText, Calls(<<SearchCall, StatsCall>>), "tool_calls", SomeUsage),
    Response(PlainText, Calls(<<SearchCall>>), "stop", NoUsage),
    Response(TripText, Calls(<<SearchCall>>), "stop", NoUsage),
    Response(PlainText, NoCalls, "tool_calls", NoUsage),
    Response(<< >>, Calls(<< >>), "tool_calls", NoUsage),
    Response(PlainText, NoCalls, "stop", SomeUsage) }

\* the same over a stream, which may also end without a finished chunk
CallsStreamResponses ==
  { [r |-> r, finished |-> TRUE] : r \in CallsResponses }
  \cup { [r |-> Response(PlainText, Calls(<<SearchCall>>), "none", NoUsage),
          finished |-> FALSE] }

SummaryStreamResponses ==
  { [r |-> r, finished |-> TRUE] : r \in SummaryResponses }
  \cup { [r |-> Response(PlainText, NoCalls, "none", NoUsage), finished |-> FALSE] }

\* ------------------------------------------------------------------------
\* State
\* ------------------------------------------------------------------------
VARIABLES
  mode,                \* "new", "execute" or "executeStream"
  pc,                  \* where the turn is suspended
  aborted,             \* abortSignal.aborted
  maxToolRounds,       \* config.maxToolRounds
  historyMessages,     \* the history the Agent was constructed with
  messages, toolsUsed, toolRounds, totalUsage,       \* fields of Agent
  finalContent, accumulatedContent, displayedContent,
  toolCalls, isBufferingToolCall, isBufferingThink,  \* locals of the loops
  resp,                \* the LLM response being awaited or streamed
  pos,                 \* symbols of resp.content delivered so far
  finishedSeen,        \* the chunk with isFinished was delivered
  result,              \* what the call resolved to
  error,               \* what the call rejected with
  events,              \* the onChunk calls of executeStream
  delivered,           \* the chunks agent:runStream sent to the window
  llmCalls,            \* the chat()/chatStream() calls made, in order
  toolRuns,            \* the batches handed to executeToolCalls, in order
  abortedRuns,         \* those of them handed over after the signal fired
  uuids,               \* randomUUID() values drawn
  splits, idleCalls,   \* counters the bounds apply to
  exitPath,            \* which return statement ended the turn
  abortedAtCall,       \* the signal was set when the entry point was called
  limitExit,           \* the while loop ended because toolRounds = maxToolRounds
  activeAgentRequests, \* the request ids that have an AbortController registered
  ipcSent,             \* what the handler of agent:runStream itself sent, in order
  abortReply,          \* what the latest agent:abort returned
  heap,                \* two turns side by side: the arrays, by address
  usages,              \* the TokenUsage objects, by address
  signals,             \* the aborted flag of the AbortSignals, by address
  agents,              \* the fields of the two Agent instances
  requests,            \* the AbortSignal registered for each of the two runs
  actor,               \* the turn the latest step belongs to
  menu,                \* which of the two menus the LLM of this turn answers from
  toolCall,            \* a tool executor's arguments, context and message store
  toolReply,           \* what the executor asked of the store and returned
  toolStart,           \* the toolParams of the tool_start event sent for the call
  storeFile,           \* the embedding config file on disk, << >> when there is none
  defaultEnabled,      \* the enabled field of DEFAULT_EMBEDDING_CONFIG_STORE
  uuidCount,           \* how many ids randomUUID has handed to addEmbeddingConfig
  embeddingService,    \* whether an embedding service instance is cached
  embedReply,          \* what the latest embedding handler or search returned
  streamRuns,          \* the agent:runStream requests made, in the order made
  controllers          \* activeAgentRequests as a Map: whose AbortController an id has

runVars == <<streamRuns, controllers>>
agentVars == <<messages, toolsUsed, toolRounds, totalUsage>>
loopVars == <<finalContent, accumulatedContent, displayedContent, toolCalls,
              isBufferingToolCall, isBufferingThink>>
llmVars == <<resp, pos, finishedSeen>>
observers == <<llmCalls, toolRuns, abortedRuns, uuids, splits, idleCalls>>
ipcVars == <<activeAgentRequests, ipcSent, abortReply>>
turnVars == <<mode, pc, aborted, maxToolRounds, historyMessages, agentVars, loopVars,
              llmVars, result, error, events, delivered, observers, exitPath,
              abortedAtCall, limitExit, ipcVars, menu, runVars>>
pairVars == <<heap, usages, signals, agents, requests, actor>>
\* what the steps of the one turn leave alone
toolVars == <<toolCall, toolReply, toolStart>>
embedVars == <<storeFile, defaultEnabled, uuidCount, embeddingService, embedReply>>
outside == <<pairVars, toolVars, embedVars, menu, runVars>>
vars == <<turnVars, outside>>

NoResult == [returned |-> FALSE, content |-> << >>, toolsUsed |-> << >>,
             toolRounds |-> 0, totalUsage |-> NoUsage]
NoResponse == [r |-> Response(<< >>, NoCalls, "none", NoUsage), finished |-> FALSE]
NoId == [src |-> "none", n |-> 0]

\* the one request id of the model, and what agent:abort may return
RequestId == "req"
NoReply == [success |-> FALSE, error |-> "no call"]
AbortDone == [success |-> TRUE, error |-> ""]
AbortNotFound == [success |-> FALSE, error |-> "not found"]

Message(role, content, calls, id) ==
  [role |-> role, content |-> content, tool_calls |-> calls, tool_call_id |-> id]

Histories ==
  { <<Message("user", "earlier question", NoCalls, NoId),
      Message("assistant", "earlier answer", NoCalls, NoId)>> }

ZeroUsage == [promptTokens |-> 0, completionTokens |-> 0, totalTokens |-> 0]

\* agent:runStream requests side by side: how many, and the ids callers use
MaxRuns == 2
RunIds == 1..MaxRuns
CallerIds == {"a", "b"}
NoRun == [requestId |-> "", phase |-> "none", aborted |-> FALSE, onChunkCalls |-> 0,
          chunks |-> 0, errorChunks |-> 0, completes |-> 0]
NoController == 0

\* The state after the constructor
TurnStart ==
  /\ streamRuns = [r \in RunIds |-> NoRun]
  /\ controllers = [id \in CallerIds |-> NoController]
  /\ mode = "new"
  /\ pc = "idle"
  /\ aborted \in BOOLEAN
  /\ maxToolRounds \in 0..MaxRounds
  /\ historyMessages \in Histories
  /\ messages = << >>
  /\ toolsUsed = << >>
  /\ toolRounds = 0
  /\ totalUsage = ZeroUsage
  /\ finalContent = << >>
  /\ accumulatedContent = << >>
  /\ displayedContent = << >>
  /\ toolCalls = NoCalls
  /\ isBufferingToolCall = FALSE
  /\ isBufferingThink = FALSE
  /\ resp = NoResponse
  /\ pos = 0
  /\ finishedSeen = FALSE
  /\ result = NoResult
  /\ error = "none"
  /\ events = << >>
  /\ delivered = << >>
  /\ llmCalls = << >>
  /\ toolRuns = << >>
  /\ abortedRuns = 0
  /\ uuids = 0
  /\ splits = 0
  /\ idleCalls = 0
  /\ exitPath = "none"
  /\ abortedAtCall = FALSE
  /\ limitExit = FALSE
  /\ activeAgentRequests = {}
  /\ ipcSent = << >>
  /\ abortReply = NoReply

TurnInit == TurnStart /\ menu = "texts"

ChatMenu == IF menu = "calls" THEN CallsResponses ELSE ChatResponses
StreamMenu == IF menu = "calls" THEN CallsStreamResponses ELSE StreamResponses

\* an address that names no object, and the address of the caller's history
\* array
NoRef == 0
CallerHistory == 1
AgentIds == {1, 2}

NoAgent ==
  [phase |-> "none", historyMessages |-> NoRef, messages |-> NoRef,
   toolsUsed |-> NoRef, toolRounds |-> 0, totalUsage |-> NoRef,
   abortSignal |-> NoRef]

\* before either of the two Agents is constructed
PairIdle ==
  /\ heap \in { <<h>> : h \in Histories }
  /\ usages = << >>
  /\ signals = << >>
  /\ agents = [a \in AgentIds |-> NoAgent]
  /\ requests = [a \in AgentIds |-> NoRef]
  /\ actor = 0

\* an optional value: << >> when it is undefined, <<v>> otherwise
None == << >>
Some(v) == <<v>>

\* JavaScript's truthiness of an optional number and an optional string
IsNumberTruthy(o) == o # None /\ o[1] # 0
IsStringTruthy(o) == o # None /\ o[1] # ""

NoParams ==
  [start_time |-> None, end_time |-> None, year |-> None,
   month |-> None, day |-> None, hour |-> None,
   limit |-> None, id |-> None]
NoContext ==
  [timeFilter |-> None, maxMessagesLimit |-> None, locale |-> None]
NoStore == [members |-> {}, rows |-> 0, session |-> FALSE]
ToolCall(tool, params, context, store, now) ==
  [tool |-> tool, params |-> params, context |-> context, store |-> store,
   now |-> now]
NoToolCall == ToolCall("none", NoParams, NoContext, NoStore, 0)
NoToolReply ==
  [done |-> FALSE, threw |-> FALSE, filter |-> None, limit |-> None,
   error |-> None, returned |-> 0]

\* no tool executor is running
ToolsIdle ==
  toolCall = NoToolCall /\ toolReply = NoToolReply /\ toolStart = None

NoEmbedReply ==
  [op |-> "none", id |-> 0, success |-> FALSE, threw |-> FALSE, error |-> None,
   pipeline |-> FALSE, cached |-> FALSE]

\* no embedding configuration was ever written and nothing is cached
EmbedIdle ==
  /\ storeFile = None
  /\ defaultEnabled = FALSE
  /\ uuidCount = 0
  /\ embeddingService = FALSE
  /\ embedReply = NoEmbedReply

Init == TurnInit /\ PairIdle /\ ToolsIdle /\ EmbedIdle


\* ------------------------------------------------------------------------
\* Helpers of the entry points
\* ------------------------------------------------------------------------
\* isAborted without its signal
isAbortedNever == FALSE

\* Agent.isAborted
isAborted == aborted

\* Agent.addUsage
addUsage(total, usage) ==
  IF usage.present
  THEN [promptTokens |-> total.promptTokens + usage.promptTokens,
        completionTokens |-> total.completionTokens + usage.completionTokens,
        totalTokens |-> total.totalTokens + usage.totalTokens]
  ELSE total

Result(content, used, rounds, usage) ==
  [returned |-> TRUE, content |-> content, toolsUsed |-> used,
   toolRounds |-> rounds, totalUsage |-> usage]

Event(type, content, toolName, toolResult, usage) ==
  [type |-> type, content |-> content, toolName |-> toolName,
   toolParams |-> None, toolResult |-> toolResult, usage |-> usage]
ContentEvent(c) == Event("content", c, "", "", ZeroUsage)
DoneEvent(usage) == Event("done", << >>, "", "", usage)

\* JSON.parse without its exception
ParseArgumentsAlways(arguments) == Some(arguments)

\* JSON.parse(tc.function.arguments || '{}'): the object, written as its JSON
\* text, or None when JSON.parse throws
ParseArguments(arguments) ==
  IF arguments = "" THEN Some("{}")
  ELSE IF arguments = StatsCall.arguments THEN None
  ELSE Some(arguments)

toolsWithLimit ==
  {"search_messages", "get_recent_messages", "get_conversation_between"}

\* the toolParams of a tool_start event: undefined when the arguments did not
\* parse, else the object with the limit and _timeFilter spread over it
\* (None where the object's own field is kept)
ToolStartParams(name, parsed, context) ==
  IF parsed = None THEN None
  ELSE Some([object |-> parsed[1],
             limit |-> IF IsNumberTruthy(context.maxMessagesLimit)
                          /\ name \in toolsWithLimit
                       THEN context.maxMessagesLimit ELSE None,
             timeFilter |-> IF context.timeFilter # None
                               /\ name \in {"search_messages", "get_recent_messages"}
                            THEN context.timeFilter ELSE None])

\* the ToolContext the Agent of the one turn was constructed with
AgentContext == NoContext

ToolStartEvent(tc) ==
  [Event("tool_start", << >>, tc.name, "", ZeroUsage) EXCEPT
     !.toolParams = ToolStartParams(tc.name, ParseArguments(tc.arguments),
                                    AgentContext)]
ToolResultEvent(tc, r) ==
  Event("tool_result", << >>, tc.name, IF r.success THEN r.result ELSE r.error,
        ZeroUsage)

ContentEvents(texts) == [i \in 1..Len(texts) |-> ContentEvent(texts[i])]

\* the callback without its check of the signal
ForwardAlways(sent, evs) == sent \o evs

\* The onChunk callback of agent:runStream: nothing is sent once the signal fired
Forward(sent, evs) == IF aborted THEN sent ELSE sent \o evs

SystemPrompt == Message("system", "system prompt", NoCalls, NoId)
UserMessage == Message("user", "question", NoCalls, NoId)
\* the message pushed when the round limit is reached
SummaryRequest == Message("user", "answer from what you have, call no more tools",
                          NoCalls, NoId)

\* the entry points starting from the system prompt and the user message alone
InitialMessagesNoHistory(history) == <<SystemPrompt, UserMessage>>

\* the messages the entry points start from
InitialMessages(history) == <<SystemPrompt>> \o history \o <<UserMessage>>

\* the while condition, off by one
WithinRoundsInclusive(rounds) == rounds <= maxToolRounds

\* the while condition of both loops
WithinRounds(rounds) == rounds < maxToolRounds

\* the call after the loop, given the tools as the calls in the loop are
SummaryCallKeepsTools == TRUE

\* the options of the LLM call made after the loop: no tools
SummaryCallHasTools == FALSE

\* executeToolCalls (tools/index.ts): one outcome per call, in the order of
\* the calls; ok[i] tells whether call i succeeded
ExecuteToolCalls(calls, ok) ==
  [i \in 1..Len(calls) |->
     IF ok[i] THEN [success |-> TRUE, result |-> "rows", error |-> ""]
     ELSE [success |-> FALSE, result |-> "", error |-> "tool failed"]]

\* executeToolCalls parses the arguments of each call: a call whose arguments
\* are not JSON fails, any other call succeeds or fails
ArgumentsParse(arguments) == arguments # StatsCall.arguments
Outcomes(calls) ==
  { ok \in [1..Len(calls) -> BOOLEAN] :
      \A i \in 1..Len(calls) : ~ArgumentsParse(calls[i].arguments) => ~ok[i] }

\* a tool message that renders the result of a failed call, which has none
ToolMessageContentOfResult(r) == IF r.success THEN "\"rows\"" ELSE "undefined"

\* the content of the tool message of one outcome
ToolMessageContent(r) == IF r.success THEN "\"rows\"" ELSE "error: tool failed"

\* handleToolCalls pushing a tool message only for the calls that succeeded
ToolMessagesOfSuccesses(calls, results) ==
  LET all == [i \in 1..Len(calls) |->
                [m |-> Message("tool", ToolMessageContent(results[i]), NoCalls,
                               calls[i].id),
                 ok |-> results[i].success]]
      kept == SelectSeq(all, LAMBDA x : x.ok)
  IN  [i \in 1..Len(kept) |-> kept[i].m]

\* the tool messages handleToolCalls pushes, one per call
ToolMessages(calls, results) ==
  [i \in 1..Len(calls) |->
     Message("tool", ToolMessageContent(results[i]), NoCalls, calls[i].id)]

\* the assistant message handleToolCalls pushes first
AssistantMessage(calls) == Message("assistant", "", Calls(calls), NoId)

ToolNames(calls) == [i \in 1..Len(calls) |-> calls[i].name]
ToolStartEvents(calls) == [i \in 1..Len(calls) |-> ToolStartEvent(calls[i])]
\* the tool_result events emitted from the last call to the first
ToolResultEventsLastFirst(calls, results) ==
  [i \in 1..Len(calls) |->
     ToolResultEvent(calls[Len(calls) + 1 - i], results[Len(calls) + 1 - i])]
\* the tool_result events of handleToolCalls, one per call in call order
ToolResultEvents(calls, results) ==
  [i \in 1..Len(calls) |-> ToolResultEvent(calls[i], results[i])]

\* ------------------------------------------------------------------------
\* The handler of agent:runStream around executeStream.  The handler makes
\* the AbortController itself, so the signal of its turn is not set when
\* executeStream is called; a streaming turn called with the signal set is
\* one of runAgentStream.
\* ------------------------------------------------------------------------
ViaIpc == mode = "executeStream" /\ ~abortedAtCall

\* formatAIError(error)
FriendlyError == "friendly error"

IpcMessage(channel, type, res, err) ==
  [channel |-> channel, type |-> type, content |-> res.content,
   toolsUsed |-> res.toolsUsed, toolRounds |-> res.toolRounds,
   totalUsage |-> res.totalUsage, error |-> err]

\* the agent:complete of a turn that resolved
CompleteMessage(res) == IpcMessage("agent:complete", "complete", res, "")

\* the result the catch block makes up
ErrorResult == Result(<< >>, << >>, 0, ZeroUsage)
ErrorChunk == IpcMessage("agent:streamChunk", "error", ErrorResult, FriendlyError)
ErrorComplete == IpcMessage("agent:complete", "complete", ErrorResult, FriendlyError)

\* after await agent.executeStream(...) resolved with res
RunStreamResolved(sent, res) ==
  IF aborted THEN sent ELSE Append(sent, CompleteMessage(res))

\* the test of the catch block that tells a cancellation from a failure
IsAbortError(err) == err = "AbortError"

\* a catch block that sends the completion without the error chunk
RunStreamRejectedNoChunk(sent, err) ==
  IF IsAbortError(err) THEN sent ELSE sent \o <<ErrorComplete>>

\* the catch block
RunStreamRejected(sent, err) ==
  IF IsAbortError(err) THEN sent ELSE sent \o <<ErrorChunk, ErrorComplete>>

\* The rest of the async function of agent:runStream, run when the step of
\* the turn that is being taken settles executeStream, finally included
RunStreamSettles ==
  /\ ipcSent' = IF ~ViaIpc THEN ipcSent
                ELSE IF pc' = "done" THEN RunStreamResolved(ipcSent, result')
                ELSE IF pc' = "threw" THEN RunStreamRejected(ipcSent, error')
                ELSE ipcSent
  /\ activeAgentRequests' = IF pc' \in {"done", "threw"}
                            THEN activeAgentRequests \ {RequestId}
                            ELSE activeAgentRequests
  /\ UNCHANGED abortReply

\* a return statement of an entry point
Return(content, used, rounds, usage, evs, path) ==
  /\ pc' = "done"
  /\ result' = Result(content, used, rounds, usage)
  /\ exitPath' = path
  /\ events' = events \o evs
  /\ delivered' = Forward(delivered, evs)

\* chat() / chatStream() is called with the messages msgs
CallLLM(msgs, withTools, withSignal, r) ==
  /\ resp' = r
  /\ pos' = 0
  /\ finishedSeen' = FALSE
  /\ llmCalls' = Append(llmCalls, [tools |-> withTools, abortSignal |-> withSignal,
                                   messages |-> Len(msgs), events |-> Len(events),
                                   usage |-> r.r.usage])


\* ------------------------------------------------------------------------
\* The loops.  ExecLoop and StreamLoop are the code that runs, without an
\* await in between, from the top of the while loop to the next LLM call or
\* return; msgs, used, rounds and usage are the fields of the Agent and evs
\* the chunks already handed to onChunk in the same step.
\* ------------------------------------------------------------------------
fixed == <<mode, aborted, maxToolRounds, historyMessages, abortedAtCall>>

\* execute, from the while condition to chat() or a return
ExecLoop(msgs, used, rounds, usage) ==
  IF WithinRounds(rounds)
  THEN IF isAborted
       THEN /\ Return(<< >>, used, rounds, usage, << >>, "roundAbort")
            /\ messages' = msgs
            /\ UNCHANGED <<llmVars, llmCalls, limitExit, loopVars>>
       ELSE /\ \E r \in ChatMenu :
                 CallLLM(msgs, TRUE, TRUE, [r |-> r, finished |-> TRUE])
            /\ pc' = "chat"
            /\ messages' = msgs
            /\ UNCHANGED <<result, exitPath, events, delivered, limitExit, loopVars>>
  ELSE /\ messages' = Append(msgs, SummaryRequest)
       /\ \E r \in SummaryResponses :
            CallLLM(Append(msgs, SummaryRequest), SummaryCallHasTools, FALSE,
                    [r |-> r, finished |-> TRUE])
       /\ pc' = "finalChat"
       /\ limitExit' = TRUE
       /\ UNCHANGED <<result, exitPath, events, delivered, loopVars>>

\* executeStream, from the while condition to chatStream() or a return
StreamLoop(msgs, used, rounds, usage, evs) ==
  IF WithinRounds(rounds)
  THEN IF isAborted
       THEN /\ Return(finalContent, used, rounds, usage,
                      evs \o <<DoneEvent(usage)>>, "roundAbort")
            /\ messages' = msgs
            /\ UNCHANGED <<llmVars, llmCalls, limitExit, loopVars>>
       ELSE /\ \E r \in StreamMenu : CallLLM(msgs, TRUE, TRUE, r)
            /\ pc' = "stream"
            /\ messages' = msgs
            /\ accumulatedContent' = << >>
            /\ displayedContent' = << >>
            /\ toolCalls' = NoCalls
            /\ isBufferingToolCall' = FALSE
            /\ isBufferingThink' = FALSE
            /\ events' = events \o evs
            /\ delivered' = Forward(delivered, evs)
            /\ UNCHANGED <<result, exitPath, limitExit, finalContent>>
  ELSE /\ limitExit' = TRUE
       /\ IF isAborted
          THEN /\ Return(finalContent, used, rounds, usage,
                         evs \o <<DoneEvent(usage)>>, "limitAbort")
               /\ messages' = msgs
               /\ UNCHANGED <<llmVars, llmCalls, loopVars>>
          ELSE /\ messages' = Append(msgs, SummaryRequest)
               /\ \E r \in SummaryStreamResponses :
                    CallLLM(Append(msgs, SummaryRequest), SummaryCallHasTools, TRUE, r)
               /\ pc' = "finalStream"
               /\ events' = events \o evs
               /\ delivered' = Forward(delivered, evs)
               /\ UNCHANGED <<result, exitPath, loopVars>>

\* ------------------------------------------------------------------------
\* Entry points
\* ------------------------------------------------------------------------
\* execute up to await getAllToolDefinitions()
Execute ==
  /\ pc = "idle"
  /\ UNCHANGED outside
  /\ mode' = "execute"
  /\ abortedAtCall' = aborted
  /\ IF isAborted
     THEN /\ Return(<< >>, << >>, 0, totalUsage, << >>, "startAbort")
          /\ UNCHANGED <<agentVars>>
     ELSE /\ pc' = "getTools"
          /\ messages' = InitialMessages(historyMessages)
          /\ toolsUsed' = << >>
          /\ toolRounds' = 0
          /\ UNCHANGED <<totalUsage, result, exitPath, events, delivered>>
  /\ UNCHANGED <<aborted, maxToolRounds, historyMessages, loopVars, llmVars, error,
                 observers, limitExit>>
  /\ RunStreamSettles

\* executeStream up to await getAllToolDefinitions()
ExecuteStream ==
  /\ pc = "idle"
  /\ UNCHANGED outside
  /\ mode' = "executeStream"
  /\ abortedAtCall' = aborted
  /\ IF isAborted
     THEN /\ Return(<< >>, << >>, 0, totalUsage, <<DoneEvent(totalUsage)>>, "startAbort")
          /\ UNCHANGED <<agentVars, loopVars>>
     ELSE /\ pc' = "getTools"
          /\ messages' = InitialMessages(historyMessages)
          /\ toolsUsed' = << >>
          /\ toolRounds' = 0
          /\ finalContent' = << >>
          /\ UNCHANGED <<totalUsage, result, exitPath, events, delivered,
                         accumulatedContent, displayedContent, toolCalls,
                         isBufferingToolCall, isBufferingThink>>
  /\ UNCHANGED <<aborted, maxToolRounds, historyMessages, llmVars, error,
                 observers, limitExit>>
  /\ activeAgentRequests' = IF aborted THEN activeAgentRequests
                            ELSE activeAgentRequests \cup {RequestId}
  /\ UNCHANGED <<ipcSent, abortReply>>

\* getAllToolDefinitions() resolves and the loop is entered
ToolsFetched ==
  /\ pc = "getTools"
  /\ UNCHANGED outside
  /\ IF mode = "execute"
     THEN ExecLoop(messages, toolsUsed, toolRounds, totalUsage)
     ELSE StreamLoop(messages, toolsUsed, toolRounds, totalUsage, << >>)
  /\ UNCHANGED <<fixed, toolsUsed, toolRounds, totalUsage, error, toolRuns,
                 abortedRuns, uuids, splits, idleCalls>>
  /\ RunStreamSettles

\* handleToolCalls up to await executeToolCalls()
StartTools(calls, evs) ==
  /\ pc' = "tools"
  /\ messages' = Append(messages, AssistantMessage(calls))
  /\ toolCalls' = Calls(calls)
  /\ toolRuns' = Append(toolRuns, calls)
  /\ abortedRuns' = abortedRuns + (IF aborted THEN 1 ELSE 0)
  /\ events' = events \o evs
  /\ delivered' = Forward(delivered, evs)
  /\ UNCHANGED <<result, exitPath, llmVars, llmCalls, limitExit>>

\* chat() resolves: the response is interpreted
ChatReturn ==
  /\ pc = "chat"
  /\ UNCHANGED outside
  /\ LET r == resp.r
         usage == addUsage(totalUsage, r.usage)
         clean == extractThinkingContent(r.content)
         fallback == parseToolCallTags(r.content, uuids)
     IN  /\ totalUsage' = usage
         /\ IF r.finishReason # "tool_calls" \/ ~r.tool_calls.present
            THEN IF hasToolCallTags(r.content)
                 THEN IF fallback # << >>
                      THEN /\ StartTools(fallback, << >>)
                           /\ uuids' = uuids + Len(fallback)
                           /\ UNCHANGED <<finalContent, accumulatedContent,
                                          displayedContent, isBufferingToolCall,
                                          isBufferingThink>>
                      ELSE /\ Return(clean, toolsUsed, toolRounds, usage, << >>,
                                     "parseFail")
                           /\ UNCHANGED <<messages, llmVars, llmCalls, limitExit,
                                          loopVars, toolRuns, abortedRuns, uuids>>
                 ELSE /\ Return(r.content, toolsUsed, toolRounds, usage, << >>, "plain")
                      /\ UNCHANGED <<messages, llmVars, llmCalls, limitExit,
                                     loopVars, toolRuns, abortedRuns, uuids>>
            ELSE /\ StartTools(r.tool_calls.list, << >>)
                 /\ UNCHANGED <<uuids, finalContent, accumulatedContent,
                                displayedContent, isBufferingToolCall,
                                isBufferingThink>>
  /\ UNCHANGED <<fixed, toolsUsed, toolRounds, error, splits, idleCalls>>
  /\ RunStreamSettles

\* the chat() after the loop resolves
FinalChatReturn ==
  /\ pc = "finalChat"
  /\ UNCHANGED outside
  /\ totalUsage' = addUsage(totalUsage, resp.r.usage)
  /\ Return(resp.r.content, toolsUsed, toolRounds,
            addUsage(totalUsage, resp.r.usage), << >>, "fallback")
  /\ UNCHANGED <<fixed, messages, toolsUsed, toolRounds, loopVars, llmVars, error,
                 observers, limitExit>>
  /\ RunStreamSettles

\* executeToolCalls() resolves: the rest of handleToolCalls, toolRounds++ and
\* the top of the loop
ToolsReturn ==
  /\ pc = "tools"
  /\ UNCHANGED outside
  /\ \E ok \in Outcomes(toolCalls.list) :
       LET calls == toolCalls.list
           results == ExecuteToolCalls(calls, ok)
           msgs == messages \o ToolMessages(calls, results)
           used == toolsUsed \o ToolNames(calls)
       IN  /\ toolsUsed' = used
           /\ toolRounds' = toolRounds + 1
           /\ IF mode = "execute"
              THEN ExecLoop(msgs, used, toolRounds + 1, totalUsage)
              ELSE StreamLoop(msgs, used, toolRounds + 1, totalUsage,
                              ToolResultEvents(calls, results))
  /\ UNCHANGED <<fixed, totalUsage, error, toolRuns, abortedRuns, uuids, splits,
                 idleCalls>>
  /\ RunStreamSettles


\* ------------------------------------------------------------------------
\* Streaming
\* ------------------------------------------------------------------------
\* The body of `if (chunk.content)` of executeStream for one chunk c: the new
\* locals, the content chunks handed to onChunk, and whether `continue` was
\* taken (the rest of the loop body is then skipped for this chunk)
Reconcile(acc0, disp0, think0, tool0, c) ==
  LET acc == acc0 \o c
      low == ToLowerCase(acc)
      \* if (!isBufferingThink && /<think>/i.test(accumulatedContent))
      seeOpen == ~think0 /\ TestTag(acc, ThinkOpen)
      thinkStart == IndexOf(low, ThinkOpen)
      flush1 == seeOpen /\ thinkStart > Len(disp0)
      emit1 == IF flush1 THEN <<Slice(acc, Len(disp0), thinkStart)>> ELSE << >>
      disp1 == IF flush1 THEN Slice(acc, 0, thinkStart) ELSE disp0
      think1 == think0 \/ seeOpen
      \* if (isBufferingThink && /<\/think>/i.test(accumulatedContent))
      seeClose == think1 /\ TestTag(acc, ThinkClose)
      thinkEnd == IndexOf(low, ThinkClose) + Len(ThinkClose)
      disp2 == IF seeClose THEN Slice(acc, 0, thinkEnd) ELSE disp1
      think2 == think1 /\ ~seeClose
      \* if (!isBufferingToolCall) ...
      seeTool == TestTag(acc, ToolOpen)
      tagStart == IndexOf(acc, ToolOpen)
      flush3 == tagStart > Len(disp2)
      rest == SliceFrom(acc, Len(disp2))
  IN  IF think2
      THEN [acc |-> acc, disp |-> disp2, think |-> TRUE, tool |-> tool0,
            emits |-> emit1, skipped |-> TRUE]
      ELSE IF tool0
      THEN [acc |-> acc, disp |-> disp2, think |-> FALSE, tool |-> TRUE,
            emits |-> emit1, skipped |-> FALSE]
      ELSE IF seeTool
      THEN [acc |-> acc,
            disp |-> IF flush3 THEN Slice(acc, 0, tagStart) ELSE disp2,
            think |-> FALSE, tool |-> TRUE,
            emits |-> emit1 \o (IF flush3
                                THEN <<Slice(acc, Len(disp2), tagStart)>>
                                ELSE << >>),
            skipped |-> FALSE]
      ELSE [acc |-> acc,
            disp |-> IF rest # << >> THEN acc ELSE disp2,
            think |-> FALSE, tool |-> FALSE,
            emits |-> emit1 \o (IF rest # << >> THEN <<rest>> ELSE << >>),
            skipped |-> FALSE]

\* The chunks chatStream() may yield next: n more symbols of the text, with
\* isFinished or not.  The chunk with isFinished is the last one and carries
\* what is left; tool_calls come with the last chunk, usage with isFinished.
NextChunks ==
  { ch \in [n : 0..(Len(resp.r.content) - pos), isFinished : BOOLEAN] :
      /\ ~finishedSeen
      /\ ch.isFinished => resp.finished /\ pos + ch.n = Len(resp.r.content)
      /\ ~ch.isFinished => ch.n >= 1
      /\ pos + ch.n < Len(resp.r.content) => splits < MaxSplits }

ChunkContent(ch) == SubSeq(resp.r.content, pos + 1, pos + ch.n)
ChunkIsLast(ch) ==
  /\ pos + ch.n = Len(resp.r.content)
  /\ ch.isFinished \/ ~resp.finished
ChunkToolCalls(ch) == IF ChunkIsLast(ch) THEN resp.r.tool_calls ELSE NoCalls
ChunkUsage(ch) == IF ch.isFinished THEN resp.r.usage ELSE NoUsage

\* what the return on an abort seen in the stream resolves with
StreamAbortContent(final, acc) == final \o acc

\* what is handed to onChunk when the fallback parse found no call
RemainingContent(clean, disp) == SliceFrom(clean, Len(disp))

\* one pass of the body of `for await (const chunk of chatStream(...))`
StreamChunk ==
  /\ pc = "stream"
  /\ UNCHANGED outside
  /\ \E ch \in NextChunks :
       /\ pos' = pos + ch.n
       /\ finishedSeen' = ch.isFinished
       /\ splits' = splits + (IF pos + ch.n < Len(resp.r.content) THEN 1 ELSE 0)
       /\ IF isAborted
          THEN /\ Return(StreamAbortContent(finalContent, accumulatedContent),
                         toolsUsed, toolRounds, totalUsage,
                         <<DoneEvent(totalUsage)>>, "streamAbort")
               /\ UNCHANGED <<loopVars, totalUsage, uuids>>
          ELSE LET rec == IF ch.n > 0
                          THEN Reconcile(accumulatedContent, displayedContent,
                                         isBufferingThink, isBufferingToolCall,
                                         ChunkContent(ch))
                          ELSE [acc |-> accumulatedContent, disp |-> displayedContent,
                                think |-> isBufferingThink,
                                tool |-> isBufferingToolCall,
                                emits |-> << >>, skipped |-> FALSE]
                   calls == IF ChunkToolCalls(ch).present
                            THEN ChunkToolCalls(ch) ELSE toolCalls
                   usage == addUsage(totalUsage, ChunkUsage(ch))
                   clean == extractThinkingContent(rec.acc)
                   fallback == parseToolCallTags(rec.acc, uuids)
                   remaining == RemainingContent(clean, rec.disp)
                   shown == ContentEvents(rec.emits)
                   Stay(acc, tcs, use, ids) ==
                     /\ accumulatedContent' = acc
                     /\ toolCalls' = tcs
                     /\ totalUsage' = use
                     /\ uuids' = ids
                     /\ displayedContent' = rec.disp
                     /\ isBufferingThink' = rec.think
                     /\ isBufferingToolCall' = rec.tool
                     /\ events' = events \o shown
                     /\ delivered' = Forward(delivered, shown)
                     /\ UNCHANGED <<pc, result, exitPath, finalContent>>
                   Leave(content, evs, path) ==
                     /\ Return(content, toolsUsed, toolRounds, usage,
                               shown \o evs \o <<DoneEvent(usage)>>, path)
                     /\ finalContent' = content
                     /\ accumulatedContent' = rec.acc
                     /\ toolCalls' = calls
                     /\ totalUsage' = usage
                     /\ displayedContent' = rec.disp
                     /\ isBufferingThink' = rec.think
                     /\ isBufferingToolCall' = rec.tool
                     /\ UNCHANGED uuids
               IN  IF rec.skipped
                   THEN Stay(rec.acc, toolCalls, totalUsage, uuids)
                   ELSE IF ~ch.isFinished
                   THEN Stay(rec.acc, calls, usage, uuids)
                   ELSE IF resp.r.finishReason # "tool_calls" \/ ~calls.present
                   THEN IF hasToolCallTags(rec.acc)
                        THEN IF fallback # << >>
                             THEN Stay(Trim(ReplaceAllTags(clean, ToolOpen, ToolClose)),
                                       Calls(fallback), usage, uuids + Len(fallback))
                             ELSE Leave(clean,
                                        IF remaining # << >>
                                        THEN <<ContentEvent(remaining)>> ELSE << >>,
                                        "parseFail")
                        ELSE Leave(clean, << >>, "plain")
                   ELSE Stay(rec.acc, calls, usage, uuids)
  /\ UNCHANGED <<fixed, messages, toolsUsed, toolRounds, resp, error, llmCalls,
                 toolRuns, abortedRuns, idleCalls, limitExit>>
  /\ RunStreamSettles

\* chatStream() is exhausted
StreamIsOver ==
  /\ pos = Len(resp.r.content)
  /\ resp.finished => finishedSeen

\* the stream of a round ends: the tool calls are announced and handed to
\* handleToolCalls, or the loop goes round without them
StreamEnd ==
  /\ pc = "stream"
  /\ UNCHANGED outside
  /\ StreamIsOver
  /\ IF toolCalls.present /\ Len(toolCalls.list) > 0
     THEN /\ StartTools(toolCalls.list, ToolStartEvents(toolCalls.list))
          /\ UNCHANGED <<finalContent, accumulatedContent, displayedContent,
                         isBufferingToolCall, isBufferingThink, idleCalls>>
     ELSE /\ idleCalls < MaxIdleCalls
          /\ idleCalls' = idleCalls + 1
          /\ StreamLoop(messages, toolsUsed, toolRounds, totalUsage, << >>)
          /\ UNCHANGED <<toolRuns, abortedRuns>>
  /\ UNCHANGED <<fixed, toolsUsed, toolRounds, totalUsage, error, uuids, splits>>
  /\ RunStreamSettles

\* one pass of the body of the for await after the loop
FinalStreamChunk ==
  /\ pc = "finalStream"
  /\ UNCHANGED outside
  /\ \E ch \in NextChunks :
       /\ pos' = pos + ch.n
       /\ finishedSeen' = ch.isFinished
       /\ splits' = splits + (IF pos + ch.n < Len(resp.r.content) THEN 1 ELSE 0)
       /\ IF isAborted
          THEN /\ Return(finalContent, toolsUsed, toolRounds, totalUsage,
                         <<DoneEvent(totalUsage)>>, "finalAbort")
               /\ UNCHANGED <<finalContent, totalUsage>>
          ELSE LET usage == addUsage(totalUsage, ChunkUsage(ch))
                   evs == (IF ch.n > 0 THEN <<ContentEvent(ChunkContent(ch))>>
                           ELSE << >>)
                          \o (IF ch.isFinished THEN <<DoneEvent(usage)>> ELSE << >>)
               IN  /\ finalContent' = finalContent \o ChunkContent(ch)
                   /\ totalUsage' = usage
                   /\ events' = events \o evs
                   /\ delivered' = Forward(delivered, evs)
                   /\ UNCHANGED <<pc, result, exitPath>>
  /\ UNCHANGED <<fixed, messages, toolsUsed, toolRounds, accumulatedContent,
                 displayedContent, toolCalls, isBufferingToolCall, isBufferingThink,
                 resp, error, llmCalls, toolRuns, abortedRuns, uuids, idleCalls,
                 limitExit>>
  /\ RunStreamSettles

\* the stream after the loop ends: the return at the end of executeStream
FinalStreamEnd ==
  /\ pc = "finalStream"
  /\ UNCHANGED outside
  /\ StreamIsOver
  /\ Return(finalContent, toolsUsed, toolRounds, totalUsage, << >>, "fallback")
  /\ UNCHANGED <<fixed, agentVars, loopVars, llmVars, error, observers, limitExit>>
  /\ RunStreamSettles

\* chat() rejects or chatStream() throws before its first chunk; an AbortError
\* only for a call that was given the signal, once the signal fired
LLMFail ==
  /\ pc \in {"chat", "stream", "finalChat", "finalStream"}
  /\ UNCHANGED outside
  /\ pos = 0 /\ ~finishedSeen
  /\ pc' = "threw"
  /\ error' \in {"Error"} \cup
                (IF aborted /\ llmCalls[Len(llmCalls)].abortSignal
                 THEN {"AbortError"} ELSE {})
  /\ UNCHANGED <<fixed, agentVars, loopVars, llmVars, result, events, delivered,
                 observers, exitPath, limitExit>>
  /\ RunStreamSettles

\* the caller of runAgent aborts the controller whose signal it passed
Abort ==
  /\ mode = "execute"
  /\ UNCHANGED outside
  /\ pc \notin {"idle", "done", "threw"}
  /\ ~aborted
  /\ aborted' = TRUE
  /\ UNCHANGED <<mode, pc, maxToolRounds, historyMessages, agentVars, loopVars,
                 llmVars, result, error, events, delivered, observers, exitPath,
                 abortedAtCall, limitExit, ipcVars>>

\* agent:abort that leaves the entry of the request in the map
AgentAbortKeepsEntry ==
  /\ ViaIpc
  /\ UNCHANGED outside
  /\ IF RequestId \in activeAgentRequests
     THEN /\ aborted' = TRUE
          /\ abortReply' = AbortDone
          /\ UNCHANGED activeAgentRequests
     ELSE /\ abortReply' = AbortNotFound
          /\ UNCHANGED <<aborted, activeAgentRequests>>
  /\ UNCHANGED <<mode, pc, maxToolRounds, historyMessages, agentVars, loopVars,
                 llmVars, result, error, events, delivered, observers, exitPath,
                 abortedAtCall, limitExit, ipcSent>>

\* agent:abort(requestId), for the id of a request made before
AgentAbort ==
  /\ ViaIpc
  /\ UNCHANGED outside
  /\ IF RequestId \in activeAgentRequests
     THEN /\ aborted' = TRUE
          /\ activeAgentRequests' = activeAgentRequests \ {RequestId}
          /\ abortReply' = AbortDone
     ELSE /\ abortReply' = AbortNotFound
          /\ UNCHANGED <<aborted, activeAgentRequests>>
  /\ UNCHANGED <<mode, pc, maxToolRounds, historyMessages, agentVars, loopVars,
                 llmVars, result, error, events, delivered, observers, exitPath,
                 abortedAtCall, limitExit, ipcSent>>

Next ==
  \/ Execute
  \/ ExecuteStream
  \/ ToolsFetched
  \/ ChatReturn
  \/ FinalChatReturn
  \/ ToolsReturn
  \/ StreamChunk
  \/ StreamEnd
  \/ FinalStreamChunk
  \/ FinalStreamEnd
  \/ LLMFail
  \/ Abort
  \/ AgentAbort

Spec == Init /\ [][Next]_vars

\* the turn with the LLM answering from the menu of structured call lists
InitCalls == TurnStart /\ menu = "calls" /\ PairIdle /\ ToolsIdle /\ EmbedIdle
SpecCalls == InitCalls /\ [][Next]_vars


\* ------------------------------------------------------------------------
\* Two turns side by side.  Arrays, TokenUsage objects and AbortSignals are
\* objects with an address and the fields of an Agent hold addresses, so
\* that two fields naming one object is a state the model can be in.  Each
\* action is the code one turn runs between two awaits.
\* ------------------------------------------------------------------------
MaxPairRounds == 1

At(objects, ref) == objects[ref]
\* the address an array literal or a constructor call gets
Fresh(objects) == Len(objects) + 1
Store(objects, ref, value) ==
  IF ref = Fresh(objects) THEN Append(objects, value)
  ELSE [objects EXCEPT ![ref] = value]
Push(objects, ref, values) == [objects EXCEPT ![ref] = @ \o values]

\* the question and the tool call of each of the two turns
UserMessageOf(a) ==
  Message("user", IF a = 1 THEN "question" ELSE "other question", NoCalls, NoId)
CallsOf(a) == IF a = 1 THEN <<SearchCall>> ELSE <<StatsCall>>

\* execute filling the history array it was given instead of a new array
MessagesTargetHistory(a) == agents[a].historyMessages

\* the array execute / executeStream assign to this.messages: a new one
MessagesTarget(a) == Fresh(heap)

\* agent:runStream up to new Agent(...), or a caller of runAgent /
\* runAgentStream: a new AbortController, kept for the run, and a new Agent
\* with its own messages, toolsUsed and totalUsage objects; the history is
\* the caller's array itself or the copy agent:runStream makes of it
NewAgent(a) ==
  /\ agents[a].phase = "none"
  /\ \E copy \in BOOLEAN :
       LET heap1 == IF copy THEN Append(heap, At(heap, CallerHistory)) ELSE heap
           h == IF copy THEN Len(heap1) ELSE CallerHistory
       IN  /\ heap' = heap1 \o << << >>, << >> >>
           /\ agents' = [agents EXCEPT ![a] =
                            [phase |-> "new", historyMessages |-> h,
                             messages |-> Len(heap1) + 1,
                             toolsUsed |-> Len(heap1) + 2, toolRounds |-> 0,
                             totalUsage |-> Fresh(usages),
                             abortSignal |-> Fresh(signals)]]
  /\ usages' = Append(usages, ZeroUsage)
  /\ signals' = Append(signals, FALSE)
  /\ requests' = [requests EXCEPT ![a] = Fresh(signals)]
  /\ actor' = a
  /\ UNCHANGED <<turnVars, toolVars, embedVars>>

\* The top of the while loop of executeStream and what follows it without an
\* await; ag is the Agent as the step leaves it and objects the arrays
Continue(a, objects, ag) ==
  LET stop == At(signals, ag.abortSignal)
      summary == ~stop /\ ag.toolRounds >= MaxPairRounds
      phase == IF stop THEN "done" ELSE IF summary THEN "final" ELSE "llm"
  IN  /\ heap' = IF summary THEN Push(objects, ag.messages, <<SummaryRequest>>)
                 ELSE objects
      /\ agents' = [agents EXCEPT ![a] = [ag EXCEPT !.phase = phase]]
      \* the finally block of agent:runStream
      /\ requests' = IF stop THEN [requests EXCEPT ![a] = NoRef] ELSE requests

\* a return statement of a's turn, and the finally block of agent:runStream
Settled(a) ==
  /\ agents' = [agents EXCEPT ![a].phase = "done"]
  /\ requests' = [requests EXCEPT ![a] = NoRef]

\* executeStream up to await getAllToolDefinitions()
ExecuteP(a) ==
  /\ agents[a].phase = "new"
  /\ IF At(signals, agents[a].abortSignal)
     THEN Settled(a) /\ UNCHANGED heap
     ELSE LET m == MessagesTarget(a)
              heap1 == Store(heap, m, <<SystemPrompt>>
                                        \o At(heap, agents[a].historyMessages)
                                        \o <<UserMessageOf(a)>>)
          IN  /\ heap' = Append(heap1, << >>)
              /\ agents' = [agents EXCEPT ![a].phase = "getTools",
                                          ![a].messages = m,
                                          ![a].toolsUsed = Fresh(heap1),
                                          ![a].toolRounds = 0]
              /\ UNCHANGED requests
  /\ actor' = a
  /\ UNCHANGED <<usages, signals, turnVars, toolVars, embedVars>>

ToolsFetchedP(a) ==
  /\ agents[a].phase = "getTools"
  /\ Continue(a, heap, agents[a])
  /\ actor' = a
  /\ UNCHANGED <<usages, signals, turnVars, toolVars, embedVars>>

\* the response of a round arrives: its usage is added, and it is the answer
\* or it has a tool call, whose assistant message handleToolCalls pushes
ChatReturnP(a) ==
  /\ agents[a].phase = "llm"
  /\ IF At(signals, agents[a].abortSignal)
     THEN Settled(a) /\ UNCHANGED <<heap, usages>>
     ELSE /\ usages' = [usages EXCEPT ![agents[a].totalUsage] = addUsage(@, SomeUsage)]
          /\ \E answer \in BOOLEAN :
               IF answer
               THEN Settled(a) /\ UNCHANGED heap
               ELSE /\ heap' = Push(heap, agents[a].messages,
                                    <<AssistantMessage(CallsOf(a))>>)
                    /\ agents' = [agents EXCEPT ![a].phase = "tools"]
                    /\ UNCHANGED requests
  /\ actor' = a
  /\ UNCHANGED <<signals, turnVars, toolVars, embedVars>>

\* executeToolCalls resolves: the rest of handleToolCalls, toolRounds++
ToolsReturnP(a) ==
  /\ agents[a].phase = "tools"
  /\ \E ok \in Outcomes(CallsOf(a)) :
       LET heap1 == Push(heap, agents[a].messages,
                         ToolMessages(CallsOf(a), ExecuteToolCalls(CallsOf(a), ok)))
           heap2 == Push(heap1, agents[a].toolsUsed, ToolNames(CallsOf(a)))
       IN  Continue(a, heap2, [agents[a] EXCEPT !.toolRounds = @ + 1])
  /\ actor' = a
  /\ UNCHANGED <<usages, signals, turnVars, toolVars, embedVars>>

\* the answer to the summary request arrives
FinalReturnP(a) ==
  /\ agents[a].phase = "final"
  /\ usages' = IF At(signals, agents[a].abortSignal) THEN usages
               ELSE [usages EXCEPT ![agents[a].totalUsage] = addUsage(@, SomeUsage)]
  /\ Settled(a)
  /\ actor' = a
  /\ UNCHANGED <<heap, signals, turnVars, toolVars, embedVars>>

\* agent:abort with the request id of a's run
AbortP(a) ==
  /\ requests[a] # NoRef
  /\ signals' = [signals EXCEPT ![requests[a]] = TRUE]
  /\ requests' = [requests EXCEPT ![a] = NoRef]
  /\ actor' = a
  /\ UNCHANGED <<heap, usages, agents, turnVars, toolVars, embedVars>>

InitPair ==
  TurnInit /\ maxToolRounds = 0 /\ ~aborted /\ PairIdle /\ ToolsIdle /\ EmbedIdle

NextPair ==
  \E a \in AgentIds :
    \/ NewAgent(a)
    \/ ExecuteP(a)
    \/ ToolsFetchedP(a)
    \/ ChatReturnP(a)
    \/ ToolsReturnP(a)
    \/ FinalReturnP(a)
    \/ AbortP(a)

SpecPair == InitPair /\ [][NextPair]_vars


\* ------------------------------------------------------------------------
\* The tool executors.  The message store (workerManager) is what it holds:
\* the member ids, the number of rows that match the query, and whether the
\* session asked for exists.  Dates are seconds since 1970-01-01 00:00 of
\* the local time zone.
\* ------------------------------------------------------------------------

IsLeap(y) == (y % 4 = 0 /\ y % 100 # 0) \/ y % 400 = 0
DaysInMonth(y, m) ==
  IF m = 2 THEN (IF IsLeap(y) THEN 29 ELSE 28)
  ELSE IF m \in {4, 6, 9, 11} THEN 30 ELSE 31
DaysBeforeYear(y) ==
  365 * (y - 1970) + (y - 1969) \div 4 - (y - 1901) \div 100 + (y - 1601) \div 400
RECURSIVE DaysBeforeMonth(_, _)
DaysBeforeMonth(y, m) ==
  IF m <= 1 THEN 0 ELSE DaysBeforeMonth(y, m - 1) + DaysInMonth(y, m - 1)

\* Math.floor(new Date(y, m - 1, d, h, mi, s).getTime() / 1000)
DateTs(y, m, d, h, mi, s) ==
  ((DaysBeforeYear(y) + DaysBeforeMonth(y, m) + d - 1) * 24 + h) * 3600 + mi * 60 + s

\* new Date(text.replace(' ', 'T')): the fields of the date, or undefined for
\* an Invalid Date
DateFields(text) ==
  CASE text = "2024-03-15 14:00" -> Some([y |-> 2024, m |-> 3, d |-> 15, h |-> 14, mi |-> 0])
    [] text = "2024-03-15 18:30" -> Some([y |-> 2024, m |-> 3, d |-> 15, h |-> 18, mi |-> 30])
    [] OTHER -> None
ParsedTs(text) ==
  LET f == DateFields(text)
  IN  IF f = None THEN None
      ELSE Some(DateTs(f[1].y, f[1].m, f[1].d, f[1].h, f[1].mi, 0))

TimeFilter(startTs, endTs) == [startTs |-> startTs, endTs |-> endTs]

\* parseExtendedTimeParams, step 1: the range of start_time / end_time, or
\* undefined when neither is a date
ExplicitRange(params, now) ==
  LET startTs == IF IsStringTruthy(params.start_time)
                 THEN ParsedTs(params.start_time[1]) ELSE None
      endTs == IF IsStringTruthy(params.end_time)
               THEN ParsedTs(params.end_time[1]) ELSE None
  IN  IF startTs # None \/ endTs # None
      THEN Some(TimeFilter(IF startTs # None THEN startTs[1] ELSE 0,
                           IF endTs # None THEN endTs[1] ELSE now))
      ELSE None

\* step 2 with the hour tested like month and day, so that hour 0 counts as
\* not given
CalendarRangeHourTruthy(params) ==
  LET year == params.year[1]
      month == params.month
      day == params.day
      hour == params.hour
  IN  IF IsNumberTruthy(month) /\ IsNumberTruthy(day) /\ IsNumberTruthy(hour)
      THEN TimeFilter(DateTs(year, month[1], day[1], hour[1], 0, 0),
                      DateTs(year, month[1], day[1], hour[1], 59, 59))
      ELSE IF IsNumberTruthy(month) /\ IsNumberTruthy(day)
      THEN TimeFilter(DateTs(year, month[1], day[1], 0, 0, 0),
                      DateTs(year, month[1], day[1], 23, 59, 59))
      ELSE IF IsNumberTruthy(month)
      THEN TimeFilter(DateTs(year, month[1], 1, 0, 0, 0),
                      DateTs(year, month[1], DaysInMonth(year, month[1]), 23, 59, 59))
      ELSE TimeFilter(DateTs(year, 1, 1, 0, 0, 0), DateTs(year, 12, 31, 23, 59, 59))

\* parseExtendedTimeParams, step 2: the range of year / month / day / hour
CalendarRange(params) ==
  LET year == params.year[1]
      month == params.month
      day == params.day
      hour == params.hour
  IN  IF IsNumberTruthy(month) /\ IsNumberTruthy(day) /\ hour # None
      THEN TimeFilter(DateTs(year, month[1], day[1], hour[1], 0, 0),
                      DateTs(year, month[1], day[1], hour[1], 59, 59))
      ELSE IF IsNumberTruthy(month) /\ IsNumberTruthy(day)
      THEN TimeFilter(DateTs(year, month[1], day[1], 0, 0, 0),
                      DateTs(year, month[1], day[1], 23, 59, 59))
      ELSE IF IsNumberTruthy(month)
      THEN TimeFilter(DateTs(year, month[1], 1, 0, 0, 0),
                      DateTs(year, month[1], DaysInMonth(year, month[1]), 23, 59, 59))
      ELSE TimeFilter(DateTs(year, 1, 1, 0, 0, 0), DateTs(year, 12, 31, 23, 59, 59))

\* parseExtendedTimeParams taking the calendar range first
parseExtendedTimeParamsYearFirst(params, contextTimeFilter, now) ==
  IF IsNumberTruthy(params.year) THEN Some(CalendarRange(params))
  ELSE IF (IsStringTruthy(params.start_time) \/ IsStringTruthy(params.end_time))
          /\ ExplicitRange(params, now) # None
  THEN ExplicitRange(params, now)
  ELSE contextTimeFilter

parseExtendedTimeParams(params, contextTimeFilter, now) ==
  IF (IsStringTruthy(params.start_time) \/ IsStringTruthy(params.end_time))
     /\ ExplicitRange(params, now) # None
  THEN ExplicitRange(params, now)
  ELSE IF IsNumberTruthy(params.year) THEN Some(CalendarRange(params))
  ELSE contextTimeFilter

\* params.limit || maxMessagesLimit || fallback
LimitOrModelFirst(context, params, fallback) ==
  IF IsNumberTruthy(params.limit) THEN params.limit[1]
  ELSE IF IsNumberTruthy(context.maxMessagesLimit) THEN context.maxMessagesLimit[1]
  ELSE fallback

\* maxMessagesLimit || params.limit || fallback
LimitOr(context, params, fallback) ==
  IF IsNumberTruthy(context.maxMessagesLimit) THEN context.maxMessagesLimit[1]
  ELSE IF IsNumberTruthy(params.limit) THEN params.limit[1]
  ELSE fallback

\* the rows the store returns of those that match
StoreRows(store, limit) == IF limit >= 0 THEN Min2(store.rows, limit) ELSE store.rows

\* isChineseLocale and t
isChineseLocale(locale) == locale = Some("zh-CN")
t(key, locale) == [key |-> key, zh |-> isChineseLocale(locale)]

Returned(filter, limit, rows) ==
  [done |-> TRUE, threw |-> FALSE, filter |-> filter, limit |-> limit,
   error |-> None, returned |-> rows]
ReturnedError(filter, limit, text) ==
  [done |-> TRUE, threw |-> FALSE, filter |-> filter, limit |-> limit,
   error |-> Some(text), returned |-> 0]

searchMessagesExecutor(params, context, store, now) ==
  LET limit == Min2(LimitOr(context, params, 100), 5000)
      effectiveTimeFilter == parseExtendedTimeParams(params, context.timeFilter, now)
  IN  Returned(effectiveTimeFilter, Some(limit), StoreRows(store, limit))

getRecentMessagesExecutor(params, context, store, now) ==
  LET limit == LimitOr(context, params, 100)
      effectiveTimeFilter == parseExtendedTimeParams(params, context.timeFilter, now)
  IN  Returned(effectiveTimeFilter, Some(limit), StoreRows(store, limit))

\* members.find(m => m.id === params.member_id) finding whatever it is asked
FindMemberAlways(members, id) == TRUE

\* members.find(m => m.id === params.member_id)
FindMember(members, id) == id # None /\ id[1] \in members

getMemberNameHistoryExecutor(params, context, store, now) ==
  IF ~FindMember(store.members, params.id)
  THEN ReturnedError(None, None, t("memberNotFound", context.locale))
  ELSE Returned(None, None, 1)

getConversationBetweenExecutor(params, context, store, now) ==
  LET limit == LimitOr(context, params, 100)
      effectiveTimeFilter == parseExtendedTimeParams(params, context.timeFilter, now)
  IN  IF StoreRows(store, limit) = 0
      THEN ReturnedError(effectiveTimeFilter, Some(limit),
                         t("noConversation", context.locale))
      ELSE Returned(effectiveTimeFilter, Some(limit), StoreRows(store, limit))

getMessageContextExecutor(params, context, store, now) ==
  IF store.rows = 0
  THEN ReturnedError(None, None, t("noMessageContext", context.locale))
  ELSE Returned(None, None, store.rows)

getSessionMessagesExecutor(params, context, store, now) ==
  LET limit == LimitOr(context, params, 500)
  IN  IF ~store.session
      THEN ReturnedError(None, Some(limit),
                         t("sessionNotFound", context.locale))
      ELSE Returned(None, Some(limit), StoreRows(store, limit))

\* the arguments the executors are tried with
TimeTexts == {"", "2024-03-15 14:00", "2024-03-15 18:30", "next week"}
TimeParams ==
  { [NoParams EXCEPT !.start_time = st, !.end_time = en, !.year = y,
                     !.month = m, !.day = d, !.hour = h] :
      st \in {None} \cup {Some(x) : x \in TimeTexts},
      en \in {None, Some("2024-03-15 14:00"), Some("2024-03-15 18:30"),
              Some("next week")},
      y \in {None, Some(2023), Some(2024)},
      m \in {None, Some(2), Some(12)},
      d \in {None, Some(29)},
      h \in {None, Some(0), Some(13)} }
ContextFilters == {None, Some(TimeFilter(1700000000, 1700086400))}
Limits == {None, Some(0), Some(10), Some(7000)}
UserLimits == {None, Some(0), Some(50), Some(6000)}
Locales == {None, Some("zh-CN"), Some("en-US")}
Nows == {1700000000, 1720000000}
LimitTools ==
  {"search_messages", "get_recent_messages", "get_conversation_between",
   "get_session_messages"}
Stores ==
  { [members |-> {1, 2}, rows |-> r, session |-> e] : r \in {0, 3}, e \in BOOLEAN }

TimeCalls ==
  { ToolCall(tool, p, [NoContext EXCEPT !.timeFilter = f],
             [members |-> {1, 2}, rows |-> 3, session |-> TRUE], now) :
      tool \in {"search_messages", "get_recent_messages"}, p \in TimeParams,
      f \in ContextFilters, now \in Nows }
LimitCalls ==
  { ToolCall(tool, [NoParams EXCEPT !.limit = l, !.id = Some(1)],
             [NoContext EXCEPT !.maxMessagesLimit = u],
             [members |-> {1, 2}, rows |-> 3, session |-> TRUE], now) :
      tool \in LimitTools, l \in Limits, u \in UserLimits, now \in Nows }
LookupCalls ==
  { ToolCall(tool, [NoParams EXCEPT !.id = i], [NoContext EXCEPT !.locale = loc],
             store, now) :
      tool \in {"get_member_name_history", "get_conversation_between",
                "get_message_context", "get_session_messages"},
      i \in {Some(1), Some(9)}, loc \in Locales, store \in Stores, now \in Nows }
ToolCalls == TimeCalls \cup LimitCalls \cup LookupCalls

\* Each action is one executor called with toolCall and returning
SearchMessages ==
  /\ toolCall.tool = "search_messages"
  /\ ~toolReply.done
  /\ toolReply' = searchMessagesExecutor(toolCall.params, toolCall.context,
                                      toolCall.store, toolCall.now)
  /\ UNCHANGED <<toolCall, toolStart, turnVars, pairVars, embedVars>>

GetRecentMessages ==
  /\ toolCall.tool = "get_recent_messages"
  /\ ~toolReply.done
  /\ toolReply' = getRecentMessagesExecutor(toolCall.params, toolCall.context,
                                         toolCall.store, toolCall.now)
  /\ UNCHANGED <<toolCall, toolStart, turnVars, pairVars, embedVars>>

GetMemberNameHistory ==
  /\ toolCall.tool = "get_member_name_history"
  /\ ~toolReply.done
  /\ toolReply' = getMemberNameHistoryExecutor(toolCall.params, toolCall.context,
                                            toolCall.store, toolCall.now)
  /\ UNCHANGED <<toolCall, toolStart, turnVars, pairVars, embedVars>>

GetConversationBetween ==
  /\ toolCall.tool = "get_conversation_between"
  /\ ~toolReply.done
  /\ toolReply' = getConversationBetweenExecutor(toolCall.params, toolCall.context,
                                              toolCall.store, toolCall.now)
  /\ UNCHANGED <<toolCall, toolStart, turnVars, pairVars, embedVars>>

GetMessageContext ==
  /\ toolCall.tool = "get_message_context"
  /\ ~toolReply.done
  /\ toolReply' = getMessageContextExecutor(toolCall.params, toolCall.context,
                                         toolCall.store, toolCall.now)
  /\ UNCHANGED <<toolCall, toolStart, turnVars, pairVars, embedVars>>

GetSessionMessages ==
  /\ toolCall.tool = "get_session_messages"
  /\ ~toolReply.done
  /\ toolReply' = getSessionMessagesExecutor(toolCall.params, toolCall.context,
                                          toolCall.store, toolCall.now)
  /\ UNCHANGED <<toolCall, toolStart, turnVars, pairVars, embedVars>>

\* executeStream announces the call before it hands it to the executor: the
\* arguments have parsed to params, the Agent's context is the executor's
AnnounceTool ==
  /\ toolCall.tool # "none"
  /\ ~toolReply.done
  /\ toolStart = None
  /\ toolStart' = Some(ToolStartParams(toolCall.tool, Some(toolCall.params),
                                       toolCall.context))
  /\ UNCHANGED <<toolCall, toolReply, turnVars, pairVars, embedVars>>

InitTools ==
  /\ TurnInit /\ maxToolRounds = 0 /\ ~aborted
  /\ PairIdle
  /\ EmbedIdle
  /\ toolCall \in ToolCalls
  /\ toolReply = NoToolReply
  /\ toolStart = None

NextTools ==
  \/ SearchMessages
  \/ GetRecentMessages
  \/ GetMemberNameHistory
  \/ GetConversationBetween
  \/ GetMessageContext
  \/ GetSessionMessages
  \/ AnnounceTool

SpecTools == InitTools /\ [][NextTools]_vars


\* ------------------------------------------------------------------------
\* The embedding configuration store (rag/config.ts), the IPC handlers that
\* write it (ipc/ai.ts) and the semantic search tool that reads it.  A
\* configuration is its id; the fields an update changes are left out.

MaxUuids == 2
MAX_EMBEDDING_CONFIG_COUNT == 10

\* JavaScript null where a configuration id is expected
NoConfigId == 0

EmbeddingStore(configs, activeConfigId, enabled) ==
  [configs |-> configs, activeConfigId |-> activeConfigId, enabled |-> enabled]

\* the content of the file: unparsable, or an object whose fields may be missing
FileContent(valid, configs, activeConfigId, enabled) ==
  [valid |-> valid, configs |-> configs, activeConfigId |-> activeConfigId,
   enabled |-> enabled]

DEFAULT_EMBEDDING_CONFIG_STORE(enabled) == EmbeddingStore(<< >>, NoConfigId, enabled)

loadEmbeddingConfigStore(file, default) ==
  IF file = None
    THEN DEFAULT_EMBEDDING_CONFIG_STORE(default)
    ELSE LET data == file[1]
         IN  IF ~data.valid
               THEN DEFAULT_EMBEDDING_CONFIG_STORE(default)
               ELSE EmbeddingStore(
                      IF data.configs = None THEN << >> ELSE data.configs[1],
                      IF data.activeConfigId = None
                        THEN NoConfigId ELSE data.activeConfigId[1],
                      IF data.enabled = None THEN FALSE ELSE data.enabled[1])

saveEmbeddingConfigStore(store) ==
  Some(FileContent(TRUE, Some(store.configs), Some(store.activeConfigId),
                   Some(store.enabled)))

ConfigIds(store) == { store.configs[i] : i \in 1..Len(store.configs) }

\* Array.prototype.findIndex, 0-based, -1 when no element has the id
FindIndex(configs, id) ==
  IF \E i \in 1..Len(configs) : configs[i] = id
    THEN (CHOOSE i \in 1..Len(configs) :
            configs[i] = id /\ \A j \in 1..(i - 1) : configs[j] # id) - 1
    ELSE -1

getActiveEmbeddingConfig(store) ==
  IF store.activeConfigId = NoConfigId \/ ~store.enabled
    THEN NoConfigId
    ELSE IF store.activeConfigId \in ConfigIds(store)
           THEN store.activeConfigId ELSE NoConfigId

isEmbeddingEnabledAnyConfig(store) == store.configs # << >>

isEmbeddingEnabled(store) ==
  store.activeConfigId # NoConfigId /\ store.activeConfigId \in ConfigIds(store)

Failure(store) == [success |-> FALSE, store |-> store, saved |-> FALSE]
Success(store) == [success |-> TRUE, store |-> store, saved |-> TRUE]

addEmbeddingConfigNoCap(store, id) ==
  LET pushed == Append(store.configs, id)
  IN  Success([store EXCEPT
                 !.configs = pushed,
                 !.activeConfigId = IF Len(pushed) = 1 THEN id ELSE @])

addEmbeddingConfig(store, id) ==
  IF Len(store.configs) >= MAX_EMBEDDING_CONFIG_COUNT
    THEN Failure(store)
    ELSE LET pushed == Append(store.configs, id)
         IN  Success([store EXCEPT
                        !.configs = pushed,
                        !.activeConfigId = IF Len(pushed) = 1 THEN id ELSE @])

updateEmbeddingConfig(store, id) ==
  IF FindIndex(store.configs, id) = -1 THEN Failure(store) ELSE Success(store)

\* deleteEmbeddingConfig without the reassignment of the active id
deleteEmbeddingConfigKeepsActive(store, id) ==
  LET index == FindIndex(store.configs, id)
      spliced == SubSeq(store.configs, 1, index) \o
                 SubSeq(store.configs, index + 2, Len(store.configs))
  IN  IF index = -1
        THEN Failure(store)
        ELSE Success([store EXCEPT !.configs = spliced])

deleteEmbeddingConfig(store, id) ==
  LET index == FindIndex(store.configs, id)
      spliced == SubSeq(store.configs, 1, index) \o
                 SubSeq(store.configs, index + 2, Len(store.configs))
  IN  IF index = -1
        THEN Failure(store)
        ELSE Success([store EXCEPT
                        !.configs = spliced,
                        !.activeConfigId =
                          IF @ = id
                            THEN IF Len(spliced) > 0 THEN spliced[1] ELSE NoConfigId
                            ELSE @])

setActiveEmbeddingConfig(store, id) ==
  IF id \notin ConfigIds(store)
    THEN Failure(store)
    ELSE Success([store EXCEPT !.activeConfigId = id])

\* what the handler leaves in the file: the store is saved only on success
FileAfter(written, file) ==
  IF written.saved THEN saveEmbeddingConfigStore(written.store) ELSE file

\* the cache once resetEmbeddingService has run: no instance
resetEmbeddingService == FALSE

\* the handler's "if (result.success) await rag.resetEmbeddingService()"
ServiceAfterKept(written, service) == service

\* a handler that resets the service whatever the result
ServiceAfterAlways(written, service) == resetEmbeddingService

ServiceAfter(written, service) ==
  IF written.success THEN resetEmbeddingService ELSE service

\* the handler returns the result; id notes the configuration the request
\* named and cached the instance the handler found
HandlerReply(op, id, written, service) ==
  [NoEmbedReply EXCEPT !.op = op, !.id = id, !.success = written.success,
                       !.cached = service]

\* the files a start can find: none, an unparsable one, and objects with and
\* without the fields the loader supplies defaults for
StoredFiles ==
  { None,
    Some(FileContent(FALSE, None, None, None)),
    Some(FileContent(TRUE, None, None, None)),
    Some(FileContent(TRUE, Some(<<1>>), Some(1), None)),
    Some(FileContent(TRUE, Some(<<1, 2>>), None, Some(TRUE))),
    Some(FileContent(TRUE, Some(<<1, 2>>), Some(2), Some(FALSE))),
    Some(FileContent(TRUE, Some(<<1, 2, 3, 4, 5, 6, 7, 8, 9>>), Some(1), Some(TRUE))) }

\* randomUUID: an id no configuration has had
NewConfigId == 9 + uuidCount + 1

\* the ids a caller names: the first, second and last of the stored ones, the
\* new ones and one that no configuration has
RequestIds == {1, 2, 9} \cup 10..(10 + MaxUuids)

AddConfig ==
  /\ LET written == addEmbeddingConfig(
                     loadEmbeddingConfigStore(storeFile, defaultEnabled), NewConfigId)
     IN  /\ written.success => uuidCount < MaxUuids
         /\ uuidCount' = IF written.success THEN uuidCount + 1 ELSE uuidCount
         /\ storeFile' = FileAfter(written, storeFile)
         /\ embeddingService' = ServiceAfter(written, embeddingService)
         /\ embedReply' = HandlerReply("add", NoConfigId, written, embeddingService)
  /\ UNCHANGED <<defaultEnabled, turnVars, pairVars, toolVars>>

UpdateConfig ==
  /\ \E id \in RequestIds :
       LET written == updateEmbeddingConfig(
                       loadEmbeddingConfigStore(storeFile, defaultEnabled), id)
       IN  /\ storeFile' = FileAfter(written, storeFile)
           /\ embeddingService' = ServiceAfter(written, embeddingService)
           /\ embedReply' = HandlerReply("update", id, written, embeddingService)
  /\ UNCHANGED <<defaultEnabled, uuidCount, turnVars, pairVars, toolVars>>

DeleteConfig ==
  /\ \E id \in RequestIds :
       LET written == deleteEmbeddingConfig(
                       loadEmbeddingConfigStore(storeFile, defaultEnabled), id)
       IN  /\ storeFile' = FileAfter(written, storeFile)
           /\ embeddingService' = ServiceAfter(written, embeddingService)
           /\ embedReply' = HandlerReply("delete", id, written, embeddingService)
  /\ UNCHANGED <<defaultEnabled, uuidCount, turnVars, pairVars, toolVars>>

SetActiveConfig ==
  /\ \E id \in RequestIds :
       LET written == setActiveEmbeddingConfig(
                       loadEmbeddingConfigStore(storeFile, defaultEnabled), id)
       IN  /\ storeFile' = FileAfter(written, storeFile)
           /\ embeddingService' = ServiceAfter(written, embeddingService)
           /\ embedReply' = HandlerReply("setActive", id, written, embeddingService)
  /\ UNCHANGED <<defaultEnabled, uuidCount, turnVars, pairVars, toolVars>>

NotEnabledError(locale) ==
  IF isChineseLocale(locale) THEN "not enabled (zh)" ELSE "not enabled (en)"

\* the semantic pipeline builds and caches the embedding service and ends
\* with results, with none, or with a failure of its own
PipelineOutcomes == {"results", "empty", "failed"}
executeSemanticPipeline(outcome) ==
  [NoEmbedReply EXCEPT
     !.op = "search", !.pipeline = TRUE, !.success = outcome # "failed",
     !.error = IF outcome = "failed" THEN Some("search failed") ELSE None]

semanticSearchMessagesExecutor(store, locale, outcome) ==
  IF ~isEmbeddingEnabled(store)
    THEN [NoEmbedReply EXCEPT !.op = "search",
                              !.error = Some(NotEnabledError(locale))]
    ELSE executeSemanticPipeline(outcome)

SemanticSearch ==
  /\ \E locale \in {Some("zh-CN"), Some("en-US")}, outcome \in PipelineOutcomes :
       embedReply' = semanticSearchMessagesExecutor(
                       loadEmbeddingConfigStore(storeFile, defaultEnabled),
                       locale, outcome)
  /\ embeddingService' = (embeddingService \/ embedReply'.pipeline)
  /\ UNCHANGED <<storeFile, defaultEnabled, uuidCount, turnVars, pairVars, toolVars>>

InitEmbed ==
  /\ TurnInit /\ maxToolRounds = 0 /\ ~aborted
  /\ PairIdle
  /\ ToolsIdle
  /\ storeFile \in StoredFiles
  /\ defaultEnabled \in BOOLEAN
  /\ uuidCount = 0
  /\ embeddingService = FALSE
  /\ embedReply = NoEmbedReply

NextEmbed ==
  \/ AddConfig
  \/ UpdateConfig
  \/ DeleteConfig
  \/ SetActiveConfig
  \/ SemanticSearch

SpecEmbed == InitEmbed /\ [][NextEmbed]_vars

\* the same handlers starting from a store without configurations: no file,
\* an unparsable one, or an object without a config list
EmptyStoreFiles ==
  { f \in StoredFiles : loadEmbeddingConfigStore(f, FALSE).configs = << >> }

InitEmbedEmpty ==
  /\ TurnInit /\ maxToolRounds = 0 /\ ~aborted
  /\ PairIdle
  /\ ToolsIdle
  /\ storeFile \in EmptyStoreFiles
  /\ defaultEnabled \in BOOLEAN
  /\ uuidCount = 0
  /\ embeddingService = FALSE
  /\ embedReply = NoEmbedReply

SpecEmbedEmpty == InitEmbedEmpty /\ [][NextEmbed]_vars


\* ------------------------------------------------------------------------
\* Several agent:runStream requests side by side.  A run is what the handler
\* starts for one request: its own AbortController, its Agent and the async
\* function around executeStream.  Here the turn itself is left out: a run
\* calls onChunk some number of times and then settles.
\* ------------------------------------------------------------------------
notRuns == <<mode, pc, aborted, maxToolRounds, historyMessages, agentVars, loopVars,
             llmVars, result, error, events, delivered, observers, exitPath,
             abortedAtCall, limitExit, activeAgentRequests, ipcSent, menu,
             pairVars, toolVars, embedVars>>

\* agent:runStream(requestId, ...) up to the first await of executeStream
RunStream(r, id) ==
  /\ streamRuns[r].phase = "none"
  /\ \A q \in 1..(r - 1) : streamRuns[q].phase # "none"
  /\ streamRuns' = [streamRuns EXCEPT ![r] = [NoRun EXCEPT !.requestId = id,
                                                           !.phase = "running"]]
  /\ controllers' = [controllers EXCEPT ![id] = r]
  /\ UNCHANGED <<notRuns, abortReply>>

\* executeStream of run r calls onChunk: the callback of the handler (one
\* call per run is followed)
RunChunk(r) ==
  /\ streamRuns[r].phase = "running"
  /\ streamRuns[r].onChunkCalls = 0
  /\ streamRuns' = [streamRuns EXCEPT
                      ![r].onChunkCalls = @ + 1,
                      ![r].chunks = IF streamRuns[r].aborted THEN @ ELSE @ + 1]
  /\ UNCHANGED <<controllers, notRuns, abortReply>>

\* what executeStream of a run may settle with
RunOutcomes(r) ==
  {"resolved", "Error"} \cup (IF streamRuns[r].aborted THEN {"AbortError"} ELSE {})

\* the rest of the async function without its finally block
RunSettledKeepsEntry(r) ==
  /\ streamRuns[r].phase = "running"
  /\ \E outcome \in RunOutcomes(r) :
       LET silent == IF outcome = "resolved" THEN streamRuns[r].aborted
                     ELSE IsAbortError(outcome)
       IN  streamRuns' = [streamRuns EXCEPT
                            ![r].phase = "settled",
                            ![r].errorChunks =
                               IF outcome = "resolved" \/ silent THEN @ ELSE @ + 1,
                            ![r].completes = IF silent THEN @ ELSE @ + 1]
  /\ UNCHANGED <<controllers, notRuns, abortReply>>

\* executeStream of run r settles: the rest of the async function
RunSettled(r) ==
  /\ streamRuns[r].phase = "running"
  /\ \E outcome \in RunOutcomes(r) :
       LET silent == IF outcome = "resolved" THEN streamRuns[r].aborted
                     ELSE IsAbortError(outcome)
       IN  streamRuns' = [streamRuns EXCEPT
                            ![r].phase = "settled",
                            ![r].errorChunks =
                               IF outcome = "resolved" \/ silent THEN @ ELSE @ + 1,
                            ![r].completes = IF silent THEN @ ELSE @ + 1]
  \* finally: activeAgentRequests.delete(requestId)
  /\ controllers' = [controllers EXCEPT ![streamRuns[r].requestId] = NoController]
  /\ UNCHANGED <<notRuns, abortReply>>

\* agent:abort(requestId)
AbortRequest(id) ==
  /\ IF controllers[id] # NoController
     THEN /\ streamRuns' = [streamRuns EXCEPT ![controllers[id]].aborted = TRUE]
          /\ controllers' = [controllers EXCEPT ![id] = NoController]
          /\ abortReply' = AbortDone
     ELSE /\ abortReply' = AbortNotFound
          /\ UNCHANGED <<streamRuns, controllers>>
  /\ UNCHANGED notRuns

InitRuns ==
  TurnInit /\ maxToolRounds = 0 /\ ~aborted /\ PairIdle /\ ToolsIdle /\ EmbedIdle

NextRuns ==
  \/ \E r \in RunIds, id \in CallerIds : RunStream(r, id)
  \/ \E r \in RunIds : RunChunk(r)
  \/ \E r \in RunIds : RunSettled(r)
  \/ \E id \in CallerIds : AbortRequest(id)

SpecRuns == InitRuns /\ [][NextRuns]_vars

\* the same, every run's executeStream settling at some time: the turn of a
\* run ends, and the event loop then runs the code after the await
SpecRunsLive == SpecRuns /\ \A r \in RunIds : WF_vars(RunSettled(r))


\* ------------------------------------------------------------------------
\* Properties
\* ------------------------------------------------------------------------
\* the text of the content events of evs, in order
RECURSIVE ConcatContent(_)
ConcatContent(evs) ==
  IF evs = << >> THEN << >>
  ELSE (IF Head(evs).type = "content" THEN Head(evs).content ELSE << >>)
       \o ConcatContent(Tail(evs))

\* the events of evs that the turn's listener renders
Visible(evs) ==
  SelectSeq(evs, LAMBDA e : e.type \in {"content", "tool_start", "tool_result"})

\* the events emitted since the latest LLM call was made
RoundEvents ==
  IF llmCalls = << >> THEN events
  ELSE SubSeq(events, llmCalls[Len(llmCalls)].events + 1, Len(events))

\* what the latest LLM call has delivered so far
Buffer == SubSeq(resp.r.content, 1, pos)

Streaming == mode = "executeStream"
Cancelled == exitPath \in {"startAbort", "roundAbort", "limitAbort", "streamAbort",
                           "finalAbort"}

\* C1: a turn whose signal is already set when execute / executeStream is
\* called returns at once: empty content, no tools used, zero rounds, zero
\* usage, and neither an LLM call nor a tool execution was made.
C1_AbortedAtCall ==
  (abortedAtCall /\ pc # "idle") =>
     /\ pc = "done"
     /\ result = [returned |-> TRUE, content |-> << >>, toolsUsed |-> << >>,
                  toolRounds |-> 0,
                  totalUsage |-> [promptTokens |-> 0, completionTokens |-> 0,
                                  totalTokens |-> 0]]
     /\ llmCalls = << >>
     /\ toolRuns = << >>

C1_Witness == abortedAtCall /\ pc = "done" /\ Streaming /\ result.returned

\* C2 as stated: the round counter never exceeds the limit, and a turn whose
\* loop exited at the limit returns a non-empty final answer.
C2_NonEmptyAtLimit ==
  /\ toolRounds <= maxToolRounds
  /\ (pc = "done" /\ limitExit) => result.content # << >>

\* C2 amended: the round counter never exceeds the limit and the loop is left
\* at the limit only when the counter equals it; the turn then returns what
\* the forced-summary call answered, so the answer is empty exactly when that
\* call's text is empty; a turn cancelled at the limit returns the part of
\* that text it had taken in, possibly nothing.
C2_BoundedRounds ==
  /\ toolRounds <= maxToolRounds
  /\ limitExit => toolRounds = maxToolRounds
  /\ (pc = "done" /\ limitExit) =>
        /\ exitPath \in {"fallback", "limitAbort", "finalAbort"}
        /\ exitPath = "fallback" =>
              (result.content = << >> <=> resp.r.content = << >>)
        /\ exitPath = "limitAbort" => result.content = << >>
        /\ exitPath = "finalAbort" =>
              \E n \in 0..pos : result.content = SubSeq(resp.r.content, 1, n)
        /\ result.toolRounds = maxToolRounds

C2_Witness ==
  /\ pc = "done" /\ limitExit /\ exitPath = "fallback"
  /\ maxToolRounds >= 1 /\ result.toolRounds = maxToolRounds
  /\ result.content # << >>

\* the positions of the assistant messages of msgs that carry tool calls
CallMessages(msgs) ==
  { i \in 1..Len(msgs) : msgs[i].role = "assistant" /\ msgs[i].tool_calls.present }

\* every assistant message with n calls is followed by exactly n tool
\* messages, in the order of the calls and with their ids, and every tool
\* message follows such a message
Answered(msgs) ==
  /\ \A i \in CallMessages(msgs) :
       LET calls == msgs[i].tool_calls.list
       IN  /\ i + Len(calls) <= Len(msgs)
           /\ \A k \in 1..Len(calls) :
                /\ msgs[i + k].role = "tool"
                /\ msgs[i + k].tool_call_id = calls[k].id
           /\ i + Len(calls) + 1 <= Len(msgs) => msgs[i + Len(calls) + 1].role # "tool"
  /\ \A j \in 1..Len(msgs) :
       msgs[j].role = "tool" =>
          \E i \in CallMessages(msgs) :
             i < j /\ j <= i + Len(msgs[i].tool_calls.list)

\* C3: handleToolCalls appends one assistant message carrying the calls and
\* then exactly one tool message per call, in order and with the call's id,
\* whether the call succeeded or failed; while the tools run the assistant
\* message is the last one, and whenever an LLM call is in flight or the turn
\* is over every dispatched batch is fully answered.
C3_ToolResultsPaired ==
  /\ Cardinality(CallMessages(messages)) = Len(toolRuns)
  /\ pc = "tools" =>
        /\ messages[Len(messages)] = AssistantMessage(toolRuns[Len(toolRuns)])
        /\ Answered(SubSeq(messages, 1, Len(messages) - 1))
  /\ pc # "tools" => Answered(messages)
  /\ llmCalls # << >> /\ pc # "tools" =>
        llmCalls[Len(llmCalls)].messages <= Len(messages)

C3_Witness ==
  /\ pc \in {"chat", "stream", "finalChat", "finalStream"}
  /\ \E i \in CallMessages(messages) :
       /\ Len(messages[i].tool_calls.list) = 2
       /\ messages[i + 1].content = ToolMessageContent(ExecuteToolCalls(<<SearchCall>>, <<TRUE>>)[1])
       /\ messages[i + 2].content = ToolMessageContent(ExecuteToolCalls(<<StatsCall>>, <<FALSE>>)[1])
       /\ llmCalls[Len(llmCalls)].messages >= i + 2

\* C4: a streaming turn cancelled while a response streams returns exactly
\* the text of the content events it emitted: nothing missing, nothing twice,
\* nothing that was never emitted.
C4_PartialIsWhatWasEmitted ==
  (Streaming /\ pc = "done" /\ exitPath \in {"streamAbort", "finalAbort"}) =>
     result.content = ConcatContent(events)

\* the symbols of a think block of ThinkText: its tags and its reasoning
ThinkSymbols == {"<think", "</think", ">", "r"}

\* C5: a streamed response made of a think block followed by visible text,
\* cut into chunks anywhere: the content events concatenated are the visible
\* text, none of them holds reasoning or part of a tag, and the turn returns
\* the visible text.
C5_ThinkNeverShown ==
  (Streaming /\ pc = "done" /\ exitPath = "plain" /\ resp.r.content = ThinkText) =>
     /\ ConcatContent(events) = PlainText
     /\ \A i \in 1..Len(events) :
          events[i].type = "content" =>
             \A k \in 1..Len(events[i].content) :
                events[i].content[k] \notin ThinkSymbols
     /\ result.content = PlainText

\* the content events a step adds
NewContent ==
  SelectSeq(SubSeq(events', Len(events) + 1, Len(events')),
            LAMBDA e : e.type = "content")

\* the text before the opening tool tag of the buffer that no content event
\* has shown when the step that brings the tag begins
UnshownBeforeTag ==
  LET tag == IndexOf(ToLowerCase(Buffer'), ToolOpen)
  IN  IF tag > Len(displayedContent)
      THEN Slice(Buffer', Len(displayedContent), tag) ELSE << >>

\* C6: in a streaming round, no content event is emitted once the buffer
\* holds an opening tool tag, and the step in which the tag arrives emits the
\* text before the tag that was not yet shown, once, and nothing else.
C6_SilentAfterToolTag ==
  [][ (Streaming /\ pc = "stream" /\ ~aborted /\ resp' = resp) =>
        /\ TestTag(Buffer, ToolOpen) => NewContent = << >>
        /\ (~TestTag(Buffer, ToolOpen) /\ TestTag(Buffer', ToolOpen)) =>
              NewContent = (IF UnshownBeforeTag # << >>
                            THEN <<ContentEvent(UnshownBeforeTag)>> ELSE << >>)
    ]_vars

\* the call the fallback parser makes of the block of TripText, n ids drawn
TripCall(n) ==
  [id |-> FallbackId(n), name |-> "search_messages",
   arguments |-> "{\"keywords\":[\"trip\"],\"sender_id\":7}"]

\* the latest response has no structured calls and its text holds one tool
\* block whose JSON has a name and an arguments object
TripAnswered ==
  /\ resp.r.content \in {TripText, UpperTripText}
  /\ resp.r.finishReason # "tool_calls" \/ ~resp.r.tool_calls.present

AwaitingLLM == pc \in {"chat", "stream", "finalChat", "finalStream"}

C8_NoThinkBlockReturned ==
  (pc = "done" /\ exitPath \in {"plain", "parseFail", "fallback"}) =>
     TagMatches(result.content, ThinkOpen, ThinkClose) = << >>

\* the positions of the LLM calls made without the tool catalog
CallsWithoutTools == { i \in 1..Len(llmCalls) : ~llmCalls[i].tools }

\* the positions of the summary request in the message list
SummaryRequests == { i \in 1..Len(messages) : messages[i] = SummaryRequest }

\* C9: when the loop is left at the round limit and the turn is not
\* cancelled, one synthetic user message is appended, exactly one more LLM
\* call is made, without the tool catalog and with that message last, and
\* what it answers is the turn's content; no other call lacks the catalog.
C9_ForcedSummary ==
  /\ limitExit /\ exitPath # "limitAbort" =>
        /\ SummaryRequests = {Len(messages)}
        /\ CallsWithoutTools = {Len(llmCalls)}
        /\ llmCalls[Len(llmCalls)].messages = Len(messages)
  /\ ~limitExit \/ exitPath = "limitAbort" =>
        SummaryRequests = {} /\ CallsWithoutTools = {}
  /\ (pc = "done" /\ limitExit /\ ~Cancelled) =>
        exitPath = "fallback" /\ result.content = resp.r.content
  /\ exitPath = "fallback" => limitExit

C9_Witness ==
  /\ pc = "done" /\ exitPath = "fallback" /\ Streaming
  /\ toolRounds = 1 /\ maxToolRounds = 1
  /\ result.content = PlainText
  /\ Len(llmCalls) = 2

\* C10 as stated: once the signal fired in a streaming turn, no LLM call is
\* made, no tool execution is started, and no content, tool_start or
\* tool_result event is delivered.
C10_NothingAfterCancel ==
  [][ (Streaming /\ aborted) =>
        /\ llmCalls' = llmCalls
        /\ toolRuns' = toolRuns
        /\ Visible(delivered') = Visible(delivered)
    ]_vars

\* C10 amended: once the signal fired in a streaming turn, no LLM call is
\* made and no event at all is delivered; a tool execution is started only
\* for the round whose stream had delivered its last chunk before the
\* signal, so at most once, and the turn returns when it ends.
C10_StopsAtRoundBoundary ==
  /\ [][ (Streaming /\ aborted) =>
           /\ llmCalls' = llmCalls
           /\ delivered' = delivered
           /\ toolRuns' # toolRuns =>
                 /\ pc = "stream" /\ StreamIsOver /\ pc' = "tools"
                 /\ abortedRuns = 0
           /\ (pc = "tools" /\ pc' # "tools") => pc' = "done" /\ Cancelled'
       ]_vars
  /\ [](Streaming => abortedRuns <= 1)

C10_Witness ==
  /\ Streaming /\ aborted /\ ~abortedAtCall
  /\ pc = "done" /\ exitPath \in {"roundAbort", "limitAbort"}
  /\ abortedRuns = 1
  /\ Len(Visible(events)) > Len(Visible(delivered))

\* the messages of the handler that carry an error
ErrorsSent == SelectSeq(ipcSent, LAMBDA m : m.error # "")

\* C11: a turn of agent:runStream whose signal has fired is never reported
\* as failed: no error chunk and no agent:complete with an error is sent,
\* and executeStream does not reject.
C11_CancelIsNoError ==
  (ViaIpc /\ aborted) => (ErrorsSent = << >> /\ pc # "threw")

\* C13: when the LLM call of a turn of agent:runStream fails with an error
\* that is not a cancellation, the turn is over: the handler has sent one
\* error chunk and then one agent:complete with the error, empty content, no
\* tools used and zero usage, and from then on no LLM call, no tool execution
\* and no further message is made.
C13_FailureEndsTurn ==
  /\ [](ViaIpc /\ pc = "threw" /\ ~IsAbortError(error) =>
          /\ ipcSent = <<[channel |-> "agent:streamChunk", type |-> "error",
                          content |-> << >>, toolsUsed |-> << >>, toolRounds |-> 0,
                          totalUsage |-> ZeroUsage, error |-> FriendlyError],
                         [channel |-> "agent:complete", type |-> "complete",
                          content |-> << >>, toolsUsed |-> << >>, toolRounds |-> 0,
                          totalUsage |-> ZeroUsage, error |-> FriendlyError]>>
          /\ ~result.returned)
  /\ [][ pc = "threw" =>
           /\ pc' = "threw"
           /\ llmCalls' = llmCalls /\ toolRuns' = toolRuns
           /\ ipcSent' = ipcSent /\ delivered' = delivered
       ]_vars

C13_Witness ==
  /\ ViaIpc /\ pc = "threw" /\ error = "Error"
  /\ toolRuns # << >> /\ totalUsage # ZeroUsage
  /\ Len(ipcSent) = 2

\* the run of the request is in flight and not yet aborted
InFlight == ViaIpc /\ pc \notin {"done", "threw"} /\ ~aborted

\* C14: the request id is registered exactly while its run is in flight and
\* not aborted; agent:abort for a registered id fires the signal, removes the
\* entry and returns success; for a run that already completed, failed or
\* was aborted it changes nothing and returns success false, not found.
C14_AbortFindsOnlyInFlight ==
  /\ [](RequestId \in activeAgentRequests <=> InFlight)
  /\ [][ (abortReply' # abortReply \/ (ViaIpc /\ aborted' # aborted)) =>
           IF InFlight
           THEN /\ aborted' /\ abortReply' = AbortDone
                /\ RequestId \notin activeAgentRequests'
                /\ UNCHANGED <<pc, agentVars, loopVars, llmVars, result, error,
                               events, delivered, llmCalls, toolRuns, ipcSent>>
           ELSE /\ abortReply' = AbortNotFound
                /\ UNCHANGED <<aborted, activeAgentRequests, pc, agentVars, loopVars,
                               llmVars, result, error, events, delivered, llmCalls,
                               toolRuns, ipcSent>>
       ]_vars

C14_Witness ==
  /\ ViaIpc /\ pc = "done" /\ ~aborted
  /\ abortReply = AbortNotFound
  /\ Len(ipcSent) = 1

\* the contents a tool message has for a call that succeeded and for one
\* that failed
RowsContent == "\"rows\""
FailureContent == "error: tool failed"

\* C12: a failing tool call does not end the run.  When executeToolCalls
\* resolves, every call of the batch gets its tool message, in order and
\* with its id; the message of a call that failed (one whose arguments are
\* not JSON always does) holds the error string; and the turn goes on to an
\* LLM call unless it was cancelled meanwhile: it never fails.
C12_ToolFailureIsAbsorbed ==
  [][ (pc = "tools" /\ pc' # "tools") =>
        LET calls == toolCalls.list
            n == Len(calls)
        IN  /\ Len(messages') >= Len(messages) + n
            /\ SubSeq(messages', 1, Len(messages)) = messages
            /\ \A k \in 1..n :
                 LET m == messages'[Len(messages) + k]
                 IN  /\ m.role = "tool" /\ m.tool_call_id = calls[k].id
                     /\ m.content \in {RowsContent, FailureContent}
                     /\ ~ArgumentsParse(calls[k].arguments) =>
                           m.content = FailureContent
            /\ \/ AwaitingLLM' /\ Len(llmCalls') = Len(llmCalls) + 1
               \/ aborted /\ pc' = "done" /\ Cancelled'
    ]_vars

C12_Witness ==
  /\ AwaitingLLM
  /\ \E i \in 1..(Len(messages) - 1) :
       /\ messages[i].role = "tool" /\ messages[i].content = FailureContent
       /\ messages[i].tool_call_id = SearchCall.id
       /\ messages[i + 1].role = "tool" /\ messages[i + 1].content = FailureContent
       /\ messages[i + 1].tool_call_id = StatsCall.id

\* the sum of what the LLM calls of the turn reported as their usage
RECURSIVE ReportedUsage(_)
ReportedUsage(calls) ==
  IF calls = << >> THEN ZeroUsage
  ELSE addUsage(ReportedUsage(SubSeq(calls, 1, Len(calls) - 1)),
                calls[Len(calls)].usage)

DoneEvents == SelectSeq(events, LAMBDA e : e.type = "done")

\* C15: a turn that ended without being cancelled returns as totalUsage the
\* component-wise sum of the usage every LLM call of the turn reported, the
\* forced summary call included, and in streaming mode its done event carries
\* that same value.
C15_UsageIsSumOfCalls ==
  (pc = "done" /\ ~Cancelled) =>
    /\ result.totalUsage = ReportedUsage(llmCalls)
    /\ Streaming => \A i \in 1..Len(DoneEvents) :
                      DoneEvents[i].usage = ReportedUsage(llmCalls)

IsPrefix(a, b) == Len(a) <= Len(b) /\ a = SubSeq(b, 1, Len(a))

\* the messages the i-th LLM call was passed, and those appended between the
\* i-th call and the next
PassedTo(i) == SubSeq(messages, 1, llmCalls[i].messages)
AppendedAfter(i) == SubSeq(messages, llmCalls[i].messages + 1, llmCalls[i + 1].messages)

\* system prompt, the history, the user message
StartsFromHistory(msgs) ==
  /\ Len(msgs) >= Len(historyMessages) + 2
  /\ msgs[1] = SystemPrompt
  /\ SubSeq(msgs, 2, Len(historyMessages) + 1) = historyMessages
  /\ msgs[Len(historyMessages) + 2] = UserMessage

\* one assistant message with a list of calls, which may be empty, followed
\* by the tool messages of all of them
IsToolRound(msgs) ==
  /\ msgs # << >>
  /\ msgs[1].role = "assistant" /\ msgs[1].tool_calls.present
  /\ Len(msgs) = 1 + Len(msgs[1].tool_calls.list)
  /\ \A k \in 1..Len(msgs[1].tool_calls.list) :
       msgs[1 + k].role = "tool" /\ msgs[1 + k].tool_call_id = msgs[1].tool_calls.list[k].id

\* msgs without the summary request when the i-th call is the forced summary
WithoutSummaryRequest(i, msgs) ==
  IF ~llmCalls[i].tools /\ msgs # << >> /\ msgs[Len(msgs)] = SummaryRequest
  THEN SubSeq(msgs, 1, Len(msgs) - 1)
  ELSE msgs

MessagesOnlyGrow == IsPrefix(messages, messages')

\* C16 as stated: the list starts as system prompt, history, user message,
\* only grows, the first LLM call is passed the starting list and every later
\* call the list of the call before it followed by that round's assistant
\* tool-call message and all its tool messages.
C16_LogOfRounds ==
  /\ [](/\ messages # << >> => StartsFromHistory(messages)
        /\ \A i \in 1..Len(llmCalls) :
             /\ llmCalls[i].messages <= Len(messages)
             /\ i = 1 => PassedTo(i) = <<SystemPrompt>> \o historyMessages \o <<UserMessage>>
             /\ i < Len(llmCalls) => IsToolRound(AppendedAfter(i)))
  /\ [][MessagesOnlyGrow]_vars

\* C16, amended: the list starts as system prompt, history, user message and
\* only grows; every LLM call is passed the whole list as it is then: the
\* list of the call before it followed by the assistant tool-call message and
\* all tool messages of the round when the round executed tools, by nothing
\* when a streamed round executed none, and, for the forced summary call, by
\* the summary request last.
C16_AppendOnlyLog ==
  /\ [](/\ messages # << >> => StartsFromHistory(messages)
        /\ \A i \in 1..Len(llmCalls) :
             /\ llmCalls[i].messages <= Len(messages)
             /\ llmCalls[i].tools =>
                  PassedTo(i)[llmCalls[i].messages] # SummaryRequest
             /\ ~llmCalls[i].tools =>
                  PassedTo(i)[llmCalls[i].messages] = SummaryRequest
             /\ i = 1 => WithoutSummaryRequest(i, PassedTo(i))
                           = <<SystemPrompt>> \o historyMessages \o <<UserMessage>>
             /\ i < Len(llmCalls) =>
                  LET round == WithoutSummaryRequest(i + 1, AppendedAfter(i))
                  IN  \/ IsToolRound(round)
                      \/ round = << >> /\ Streaming /\ llmCalls[i + 1].tools
             /\ (i = Len(llmCalls) /\ AwaitingLLM) =>
                  llmCalls[i].messages = Len(messages))
  /\ [][MessagesOnlyGrow]_vars

C16_Witness ==
  /\ pc = "done" /\ ~Cancelled
  /\ Len(llmCalls) = 2 /\ ~llmCalls[2].tools
  /\ Len(AppendedAfter(1)) = 4
  /\ messages[llmCalls[1].messages + 2].content = RowsContent
  /\ messages[llmCalls[1].messages + 3].content = FailureContent

\* what one of the two turns can see of its Agent: the fields, and the
\* objects they name
View(b) ==
  LET ag == agents[b]
      Of(objects, ref) == IF ref = NoRef THEN << >> ELSE <<At(objects, ref)>>
  IN  [agent |-> ag,
       messages |-> Of(heap, ag.messages),
       toolsUsed |-> Of(heap, ag.toolsUsed),
       totalUsage |-> Of(usages, ag.totalUsage),
       aborted |-> Of(signals, ag.abortSignal),
       registered |-> requests[b]]

\* C17: of two turns on two Agents, started from one history array or from
\* copies of it, no step of one changes what the other has: its fields, its
\* message list, its tools-used list, its usage, its signal; and the caller's
\* history array is never written.
C17_TurnsAreIsolated ==
  /\ [](At(heap, CallerHistory) \in Histories)
  /\ [][\A b \in AgentIds : b # actor' => View(b)' = View(b)]_vars

C17_Witness ==
  /\ agents[1].historyMessages = CallerHistory
  /\ agents[2].historyMessages = CallerHistory
  /\ agents[1].phase = "tools" /\ At(signals, agents[1].abortSignal)
  /\ agents[2].phase = "final" /\ ~At(signals, agents[2].abortSignal)
  /\ actor = 1
  /\ At(heap, agents[2].toolsUsed) = ToolNames(CallsOf(2))
  /\ At(usages, agents[1].totalUsage) = At(usages, agents[2].totalUsage)

\* an optional string that is there and not empty, and one that is a date
Given(o) == o # None /\ o[1] # ""
Parses(o) == o # None /\ DateFields(o[1]) # None

\* the range start_time and end_time stand for: a side that is not a date
\* counts from the epoch, or up to now
RangeOf(params, now) ==
  TimeFilter(IF Parses(params.start_time) THEN ParsedTs(params.start_time[1])[1] ELSE 0,
             IF Parses(params.end_time) THEN ParsedTs(params.end_time[1])[1] ELSE now)

TimeCallDone == toolReply.done /\ toolCall \in TimeCalls

\* C18 as stated: when start_time or end_time is given the filter comes from
\* them and neither from year / month / day / hour nor from the context
\* default; otherwise, when year is given, it is the calendar range; otherwise
\* it is the context default, which may be no filter.
C18_PrecedenceAsStated ==
  TimeCallDone =>
    LET p == toolCall.params
        default == toolCall.context.timeFilter
        explicit == Given(p.start_time) \/ Given(p.end_time)
    IN  /\ explicit =>
             /\ (Parses(p.start_time) \/ Parses(p.end_time)) =>
                   toolReply.filter = Some(RangeOf(p, toolCall.now))
             /\ p.year # None => toolReply.filter # Some(CalendarRange(p))
             /\ default # None => toolReply.filter # default
        /\ (~explicit /\ p.year # None) => toolReply.filter = Some(CalendarRange(p))
        /\ (~explicit /\ p.year = None) => toolReply.filter = default

\* C18, amended: when start_time or end_time is a date the filter is their
\* range, whatever year / month / day / hour and the context default are;
\* otherwise, when year is given, it is the calendar range, whatever the
\* context default is; otherwise it is the context default, which may be no
\* filter.
C18_Precedence ==
  TimeCallDone =>
    LET p == toolCall.params
        explicit == Parses(p.start_time) \/ Parses(p.end_time)
    IN  toolReply.filter =
          IF explicit THEN Some(RangeOf(p, toolCall.now))
          ELSE IF p.year # None THEN Some(CalendarRange(p))
          ELSE toolCall.context.timeFilter

C18_Witness ==
  /\ TimeCallDone
  /\ toolCall.params.start_time = Some("2024-03-15 14:00")
  /\ toolCall.params.end_time = Some("next week")
  /\ toolCall.params.year = Some(2023)
  /\ toolCall.params.month = Some(2)
  /\ toolCall.context.timeFilter # None
  /\ toolReply.filter = Some(TimeFilter(1710511200, 1720000000))

LimitCallDone == toolReply.done /\ toolCall \in LimitCalls

\* the limit of a tool when neither the user nor the model names one, and
\* the most rows search_messages asks for
DefaultLimit(tool) == IF tool = "get_session_messages" THEN 500 ELSE 100
Capped(tool, limit) == IF tool = "search_messages" THEN Min2(limit, 5000) ELSE limit

\* C19 as stated: the limit the store is asked for is the user's
\* maxMessagesLimit when it is configured, else the limit of the model when
\* it is given, else the default of the tool, and for search_messages at
\* most 5000.
C19_UserLimitAsStated ==
  LimitCallDone =>
    LET user == toolCall.context.maxMessagesLimit
        model == toolCall.params.limit
        chosen == IF user # None THEN user[1]
                  ELSE IF model # None THEN model[1]
                  ELSE DefaultLimit(toolCall.tool)
    IN  toolReply.limit = Some(Capped(toolCall.tool, chosen))

\* C19, amended: a limit of 0 counts as not set.  The limit the store is
\* asked for is the user's maxMessagesLimit when it is set and not 0, else
\* the limit of the model when it is given and not 0, else the default of the
\* tool, and for search_messages at most 5000 whoever chose it.
C19_UserLimitWins ==
  LimitCallDone =>
    LET user == toolCall.context.maxMessagesLimit
        model == toolCall.params.limit
        chosen == IF user # None /\ user[1] # 0 THEN user[1]
                  ELSE IF model # None /\ model[1] # 0 THEN model[1]
                  ELSE DefaultLimit(toolCall.tool)
    IN  toolReply.limit = Some(Capped(toolCall.tool, chosen))

C19_Witness ==
  /\ LimitCallDone
  /\ toolCall.tool = "search_messages"
  /\ toolCall.context.maxMessagesLimit = Some(6000)
  /\ toolCall.params.limit = Some(10)
  /\ toolReply.limit = Some(5000)

LookupCallDone == toolReply.done /\ toolCall \in LookupCalls

\* what each of the four executors may fail to find
NotFound ==
  CASE toolCall.tool = "get_member_name_history" ->
         toolCall.params.id[1] \notin toolCall.store.members
    [] toolCall.tool = "get_conversation_between" -> toolCall.store.rows = 0
    [] toolCall.tool = "get_message_context" -> toolCall.store.rows = 0
    [] toolCall.tool = "get_session_messages" -> ~toolCall.store.session
    [] OTHER -> FALSE

\* C20: get_member_name_history for an id that is not a member's,
\* get_conversation_between and get_message_context when the store has no
\* message for them, and get_session_messages when the store has no such
\* session, return a payload with an error field, in the language of the
\* locale, and do not throw; what was found is returned without an error field.
C20_NotFoundIsAPayload ==
  LookupCallDone =>
    /\ ~toolReply.threw
    /\ NotFound => /\ toolReply.error # None
                   /\ toolReply.error[1].zh = (toolCall.context.locale = Some("zh-CN"))
    /\ ~NotFound => toolReply.error = None

C20_Witness ==
  /\ LookupCallDone
  /\ toolCall.tool = "get_member_name_history"
  /\ toolCall.params.id = Some(9)
  /\ toolCall.store.members = {1, 2}
  /\ toolCall.context.locale = Some("en-US")
  /\ toolReply.error = Some(t("memberNotFound", Some("en-US")))

\* ------------------------------------------------------------------------
\* The embedding configuration store

LoadedStore == loadEmbeddingConfigStore(storeFile, defaultEnabled)
WriteOps == {"add", "update", "delete", "setActive"}

\* the store's activeConfigId is the id of one of its configurations
NamesStoredConfig(store) ==
  \E i \in 1..Len(store.configs) : store.configs[i] = store.activeConfigId

\* C21: when the store's active id names none of its configurations,
\* semantic_search_messages returns an object whose error says that semantic
\* search is not enabled; it does not throw and the semantic pipeline is
\* not run.
C21_NotEnabledIsAPayload ==
  embedReply.op = "search" /\ ~NamesStoredConfig(LoadedStore) =>
    /\ ~embedReply.threw
    /\ ~embedReply.pipeline
    /\ embedReply.error \in {Some("not enabled (zh)"), Some("not enabled (en)")}

\* a search over a store that has configurations, none of them active
C21_Witness ==
  /\ embedReply.op = "search"
  /\ LoadedStore.configs # << >>
  /\ ~NamesStoredConfig(LoadedStore)
  /\ embedReply.error = Some("not enabled (zh)")

\* C22: after a successful add, update, delete or set-active,
\* isEmbeddingEnabled() is true exactly when getActiveEmbeddingConfig()
\* returns a configuration.
C22_EnabledIffActive ==
  embedReply.op \in WriteOps /\ embedReply.success =>
    (isEmbeddingEnabled(LoadedStore)
       <=> getActiveEmbeddingConfig(LoadedStore) # NoConfigId)

\* C23: the store never holds more than MAX_EMBEDDING_CONFIG_COUNT
\* configurations, and an add that finds the store at the cap returns
\* success false and leaves the file as it was.
C23_NeverAboveCap ==
  /\ [](Len(LoadedStore.configs) <= MAX_EMBEDDING_CONFIG_COUNT)
  /\ [][embedReply'.op = "add"
          /\ Len(LoadedStore.configs) >= MAX_EMBEDDING_CONFIG_COUNT
        => ~embedReply'.success /\ storeFile' = storeFile]_vars

\* an add was refused at the cap
C23_Witness ==
  /\ embedReply.op = "add"
  /\ ~embedReply.success
  /\ Len(LoadedStore.configs) = MAX_EMBEDDING_CONFIG_COUNT

StrCall(n) ==
  [id |-> FallbackId(n), name |-> "get_recent_messages",
   arguments |-> "{\"limit\":5}"]

NoStructuredCalls ==
  resp.r.finishReason # "tool_calls" \/ ~resp.r.tool_calls.present

\* the latest response is the text of four blocks, the last two of them valid
BlocksAnswered == resp.r.content = BlocksText /\ NoStructuredCalls

\* the texts whose blocks are all invalid, and each without its think blocks
NoValidBlockTexts == {BadTagText, UpperBadTagText, ThinkBadTagText}
ThinkingRemoved(text) ==
  IF text = ThinkBadTagText
    THEN <<"a">> \o ToolOpen \o <<"J_noargs">> \o ToolClose
           \o ToolOpen \o <<"x">> \o ToolClose
    ELSE text
NoBlockValid == resp.r.content \in NoValidBlockTexts /\ NoStructuredCalls

\* C25: each tool block of a response without structured calls is parsed on
\* its own: a block that is not JSON or lacks name or arguments is skipped,
\* the others become calls in the order of the text and are executed; when
\* no block is valid the turn returns the text without its think blocks,
\* no tool is executed and the round counter is not changed.
C25_BlockByBlock ==
  /\ [](BlocksAnswered =>
          /\ exitPath \notin {"plain", "parseFail", "fallback"}
          /\ pc = "tools" =>
                /\ toolCalls = Calls(<<StrCall(uuids - 1), TripCall(uuids)>>)
                /\ toolRuns[Len(toolRuns)] = toolCalls.list)
  /\ [](NoBlockValid /\ pc = "done" /\ ~Cancelled =>
          /\ exitPath = "parseFail"
          /\ result.content = ThinkingRemoved(resp.r.content)
          /\ result.toolRounds = toolRounds)
  /\ [][NoBlockValid' /\ pc # "done" /\ pc' = "done" /\ exitPath' = "parseFail" =>
          toolRuns' = toolRuns /\ toolRounds' = toolRounds]_vars

\* two of the four blocks were executed, in the order of the text
C25_Witness ==
  /\ pc = "tools" /\ BlocksAnswered
  /\ toolCalls = Calls(<<StrCall(1), TripCall(2)>>)
  /\ toolRuns = <<toolCalls.list>>

\* a text with a think block and two invalid blocks came back without the
\* think block
C25_WitnessNoneValid ==
  /\ pc = "done" /\ exitPath = "parseFail" /\ resp.r.content = ThinkBadTagText
  /\ toolRuns = << >>
  /\ result.content # resp.r.content

\* ------------------------------------------------------------------------
\* Calendar ranges

\* the first second of a day and of the month after a month
Midnight(y, m, d) == DateTs(y, m, d, 0, 0, 0)
NextMonthStart(y, m) ==
  IF m = 12 THEN Midnight(y + 1, 1, 1) ELSE Midnight(y, m + 1, 1)

\* a call whose filter comes from year / month / day / hour
CalendarCallDone ==
  /\ TimeCallDone
  /\ ~(Parses(toolCall.params.start_time) \/ Parses(toolCall.params.end_time))
  /\ toolCall.params.year # None

\* C26: a year alone gives the range from the first second of January 1 to
\* the last second of December 31; year and month from the first second of
\* the month to the last second of its last day; with a day the 86400
\* seconds of that day; with an hour, hour 0 included, the 3600 seconds of
\* that hour; and startTs is never greater than endTs.
C26_CalendarRounding ==
  CalendarCallDone =>
    LET p == toolCall.params
        y == p.year[1]
        hasMonth == p.month # None
        hasDay == hasMonth /\ p.day # None
        hasHour == hasDay /\ p.hour # None
    IN  /\ toolReply.filter # None
        /\ LET f == toolReply.filter[1]
           IN  /\ f.startTs <= f.endTs
               /\ IF hasHour
                    THEN /\ f.startTs = Midnight(y, p.month[1], p.day[1]) + 3600 * p.hour[1]
                         /\ f.endTs = f.startTs + 3599
                  ELSE IF hasDay
                    THEN /\ f.startTs = Midnight(y, p.month[1], p.day[1])
                         /\ f.endTs = f.startTs + 86399
                  ELSE IF hasMonth
                    THEN /\ f.startTs = Midnight(y, p.month[1], 1)
                         /\ f.endTs = NextMonthStart(y, p.month[1]) - 1
                  ELSE /\ f.startTs = Midnight(y, 1, 1)
                       /\ f.endTs = Midnight(y + 1, 1, 1) - 1

\* hour 0 of 29 February 2024
C26_Witness ==
  /\ CalendarCallDone
  /\ toolCall.params.year = Some(2024) /\ toolCall.params.month = Some(2)
  /\ toolCall.params.day = Some(29) /\ toolCall.params.hour = Some(0)
  /\ toolReply.filter = Some(TimeFilter(1709164800, 1709168399))

\* ------------------------------------------------------------------------
\* The number of LLM calls of a turn

\* C27: whatever the LLM answers, a turn makes at most maxToolRounds + 1
\* LLM calls, the forced summary included.
C27_BoundedCalls == Len(llmCalls) <= maxToolRounds + 1

\* ------------------------------------------------------------------------
\* Structured call lists and finish reasons

\* the latest response has the finish reason tool_calls and a call list
ListUsable == resp.r.finishReason = "tool_calls" /\ resp.r.tool_calls.present

\* the calls handed to handleToolCalls came in a structured list / were made
\* of tool blocks of the text
StructuredRun ==
  /\ pc = "tools" /\ toolCalls.list # << >>
  /\ \A i \in 1..Len(toolCalls.list) : toolCalls.list[i].id.src = "llm"
FallbackRun ==
  /\ pc = "tools" /\ toolCalls.list # << >>
  /\ \A i \in 1..Len(toolCalls.list) : toolCalls.list[i].id.src = "fallback"

\* C28: a structured call list is executed only when the response has the
\* finish reason tool_calls and the list is present; in every other case the
\* list is ignored and the text decides: tool blocks become the calls that
\* are executed, a text without them is the final answer.
C28_ListOnlyOnToolCalls ==
  /\ StructuredRun => ListUsable
  /\ (pc = "tools" /\ ~ListUsable) =>
        /\ FallbackRun
        /\ hasToolCallTags(resp.r.content)
  /\ (pc = "done" /\ exitPath = "plain") =>
        ~ListUsable /\ ~hasToolCallTags(resp.r.content)

\* ------------------------------------------------------------------------
\* A call whose arguments are not JSON, in streaming mode

\* the list with the call whose argument string is not JSON is being executed
BadArgumentsRun ==
  Streaming /\ pc = "tools" /\ toolCalls.list = <<SearchCall, StatsCall>>

\* C29: in streaming mode a call whose argument string is not valid JSON is
\* still announced by a tool_start event, with toolParams undefined, is
\* handed to executeToolCalls with the string as it came, and gets its
\* tool_result event and its tool message.
C29_UnparsableArgumentsStillRun ==
  /\ [](BadArgumentsRun =>
          /\ toolRuns[Len(toolRuns)] = <<SearchCall, StatsCall>>
          /\ toolRuns[Len(toolRuns)][2].arguments = "{\"top_n\":"
          /\ Len(events) >= 2
          /\ LET first == events[Len(events) - 1]
                 second == events[Len(events)]
             IN  /\ first.type = "tool_start" /\ first.toolName = "search_messages"
                 /\ first.toolParams # None
                 /\ second.type = "tool_start" /\ second.toolName = "get_member_stats"
                 /\ second.toolParams = None)
  /\ [][BadArgumentsRun /\ pc' # "tools" =>
          /\ \E i \in (Len(events) + 1)..Len(events') :
                /\ events'[i].type = "tool_result"
                /\ events'[i].toolName = "get_member_stats"
          /\ \E j \in (Len(messages) + 1)..Len(messages') :
                /\ messages'[j].role = "tool"
                /\ messages'[j].tool_call_id = StatsCall.id]_vars

\* the round of that list is over: the call was announced without toolParams
\* and its failure was reported and put in the messages
C29_Witness ==
  /\ Streaming /\ toolRounds = 1 /\ toolRuns = <<(<<SearchCall, StatsCall>>)>>
  /\ \E i \in 1..Len(events) :
        /\ events[i].type = "tool_start" /\ events[i].toolName = "get_member_stats"
        /\ events[i].toolParams = None
  /\ \E i \in 1..Len(events) :
        /\ events[i].type = "tool_result" /\ events[i].toolName = "get_member_stats"
        /\ events[i].toolResult = "tool failed"
  /\ \E j \in 1..Len(messages) :
        messages[j].role = "tool" /\ messages[j].tool_call_id = StatsCall.id

\* ------------------------------------------------------------------------
\* The limit shown and the limit applied

\* the limit a tool_start event shows: the one spread over the parsed
\* arguments, else the arguments' own
ShownLimit ==
  LET shown == toolStart[1][1]
  IN  IF shown.limit # None THEN shown.limit ELSE shown.object.limit

\* a call of a tool that honours maxMessagesLimit was announced and executed
\* with the user's limit configured
AnnouncedLimitCallDone ==
  /\ LimitCallDone
  /\ toolStart # None
  /\ IsNumberTruthy(toolCall.context.maxMessagesLimit)

\* C30: with maxMessagesLimit configured, the limit shown in the toolParams
\* of the tool_start event is the row limit the executor applies, for each
\* of search_messages, get_recent_messages, get_conversation_between and
\* get_session_messages and every configured value.
C30_ShownLimitIsApplied ==
  AnnouncedLimitCallDone => ShownLimit = toolReply.limit

\* ------------------------------------------------------------------------
\* The done event of a streamed turn
\* ------------------------------------------------------------------------
\* the summary stream of the turn ended without a chunk that has isFinished
SummaryUnfinished == exitPath = "fallback" /\ ~resp.finished

\* C31: every executeStream call that returned without throwing has emitted
\* exactly one done event, that event is the last one emitted, and once a
\* done event was emitted no step of the turn emits another event.
C31_ExactlyOneDone ==
  /\ [](pc = "done" /\ Streaming =>
          /\ Len(DoneEvents) = 1
          /\ events[Len(events)].type = "done")
  /\ [][DoneEvents # << >> => events' = events]_vars

\* ------------------------------------------------------------------------
\* The order of the tool events of a streamed round
\* ------------------------------------------------------------------------
\* the tool_start and tool_result events of evs, as <<type, tool name>>
ToolEvents(evs) ==
  LET tes == SelectSeq(evs, LAMBDA e : e.type \in {"tool_start", "tool_result"})
  IN  [i \in 1..Len(tes) |-> <<tes[i].type, tes[i].toolName>>]

\* n events of one type for the calls of a batch, in call order
BatchEvents(type, calls) == [i \in 1..Len(calls) |-> <<type, calls[i].name>>]

\* the tool events of the batches runs, each batch answered
RECURSIVE AnsweredBatches(_)
AnsweredBatches(runs) ==
  IF runs = << >> THEN << >>
  ELSE AnsweredBatches(SubSeq(runs, 1, Len(runs) - 1))
       \o BatchEvents("tool_start", runs[Len(runs)])
       \o BatchEvents("tool_result", runs[Len(runs)])

\* the tool events of the turn so far: every batch answered, except that the
\* batch being executed has only been announced
ExpectedToolEvents ==
  IF pc = "tools"
  THEN AnsweredBatches(SubSeq(toolRuns, 1, Len(toolRuns) - 1))
       \o BatchEvents("tool_start", toolRuns[Len(toolRuns)])
  ELSE AnsweredBatches(toolRuns)

IsToolEvent(e) == e.type \in {"tool_start", "tool_result"}

\* C32: in a streamed turn the tool events are, round by round, one
\* tool_start per call in call order followed by one tool_result per call in
\* the same order, the results being emitted only when the tools have run;
\* nothing else is emitted between the first tool_start and the last
\* tool_result of a round, no event at all while the tools run, and every LLM
\* call is made when each announced call has its result.
C32_StartsThenResults ==
  /\ [](Streaming =>
          /\ ToolEvents(events) = ExpectedToolEvents
          /\ \A i \in 1..(Len(events) - 1) :
               /\ events[i].type = "tool_start" => IsToolEvent(events[i + 1])
               /\ events[i + 1].type = "tool_result" => IsToolEvent(events[i]))
  /\ [][Streaming /\ llmCalls' # llmCalls =>
          ToolEvents(events') = AnsweredBatches(toolRuns')]_vars
  /\ [][Streaming /\ pc = "tools" /\ pc' = "tools" => events' = events]_vars

\* a streamed round of two calls is answered and the next LLM call is made
C32_Witness ==
  /\ Streaming
  /\ pc \in {"stream", "finalStream"}
  /\ toolRuns # << >>
  /\ Len(toolRuns[Len(toolRuns)]) = 2
  /\ Len(ToolEvents(events)) = 4

\* ------------------------------------------------------------------------
\* The two entry points side by side
\* ------------------------------------------------------------------------
\* What execute does with the response r of a call made inside the loop:
\* it returns content, or it hands calls to handleToolCalls
ChatOutcome(r, uuidsDrawn) ==
  IF r.finishReason # "tool_calls" \/ ~r.tool_calls.present
  THEN IF hasToolCallTags(r.content)
       THEN IF parseToolCallTags(r.content, uuidsDrawn) # << >>
            THEN [returns |-> FALSE, content |-> << >>,
                  calls |-> parseToolCallTags(r.content, uuidsDrawn)]
            ELSE [returns |-> TRUE, content |-> extractThinkingContent(r.content),
                  calls |-> << >>]
       ELSE [returns |-> TRUE, content |-> r.content, calls |-> << >>]
  ELSE [returns |-> FALSE, content |-> << >>, calls |-> r.tool_calls.list]

\* the name and arguments of each call of a batch
Requests(calls) ==
  [i \in 1..Len(calls) |-> [name |-> calls[i].name, arguments |-> calls[i].arguments]]

\* the step ends the response of a call made inside the loop, and the turn
\* did with it what execute does with that response
AsExecute ==
  LET o == ChatOutcome(resp.r, 0)
  IN  IF o.returns
      THEN /\ pc' = "done"
           /\ result'.content = o.content
           /\ result'.toolsUsed = toolsUsed
           /\ result'.toolRounds = toolRounds
           /\ result'.totalUsage = ReportedUsage(llmCalls)
      ELSE /\ pc' = "tools"
           /\ Len(toolRuns') = Len(toolRuns) + 1
           /\ Requests(toolRuns'[Len(toolRuns')]) = Requests(o.calls)
           /\ totalUsage' = ReportedUsage(llmCalls)

\* the step ends the response of the summary call as execute ends it
AsExecuteSummary ==
  /\ pc' = "done"
  /\ result'.content = resp.r.content
  /\ result'.toolsUsed = toolsUsed
  /\ result'.toolRounds = toolRounds
  /\ result'.totalUsage = ReportedUsage(llmCalls)

\* a step in which a call made inside the loop stops being awaited
EndsResponse ==
  /\ pc \in {"chat", "stream"}
  /\ pc' # "threw"
  /\ pc' # pc \/ llmCalls' # llmCalls

\* the blocking entry point follows ChatOutcome
ExecuteFollowsChatOutcome ==
  [][/\ ~Streaming /\ ~aborted /\ EndsResponse => AsExecute
     /\ ~Streaming /\ ~aborted /\ pc = "finalChat" /\ pc' = "done"
          => AsExecuteSummary]_vars

\* C33: without cancellation, executeStream does with every response that
\* was streamed to its finished chunk what execute does with the same
\* response (it returns the same content, toolsUsed, toolRounds and
\* totalUsage, or runs the same calls), for the calls inside the loop and
\* for the summary call, and the content it returns is the concatenation of
\* the content events emitted since the last LLM call was made.
C33_EntryPointsAgree ==
  /\ [][/\ Streaming /\ ~aborted /\ resp.finished /\ EndsResponse => AsExecute
        /\ Streaming /\ ~aborted /\ resp.finished
             /\ pc = "finalStream" /\ pc' = "done" => AsExecuteSummary]_vars
  /\ [](Streaming /\ pc = "done" /\ ~aborted /\ resp.finished /\ llmCalls # << >>
          => result.content = ConcatContent(RoundEvents))

\* ------------------------------------------------------------------------
\* The registry of running requests
\* ------------------------------------------------------------------------
InFlightRuns == {r \in RunIds : streamRuns[r].phase = "running"}

\* C34: whatever agent:runStream and agent:abort requests were made, with
\* request ids that may be in use by a run not yet finished, every run that
\* is in flight and not aborted has its own AbortController registered in
\* activeAgentRequests under its request id.
C34_InFlightIsRegistered ==
  \A r \in InFlightRuns :
    ~streamRuns[r].aborted => controllers[streamRuns[r].requestId] = r

\* ------------------------------------------------------------------------
\* The end of an agent:runStream run
\* ------------------------------------------------------------------------
Completes == SelectSeq(ipcSent, LAMBDA m : m.channel = "agent:complete")
Finished == pc \in {"done", "threw"}

\* the one run of a turn: once executeStream has settled the request id is
\* not registered, and agent:complete was sent at most once, not before the
\* turn ended, and once when the turn ended without an abort
TurnRunCleansUp ==
  /\ ViaIpc /\ Finished => RequestId \notin activeAgentRequests
  /\ Len(Completes) <= 1
  /\ ViaIpc /\ ~Finished => Completes = << >>
  /\ ViaIpc /\ Finished /\ ~aborted => Len(Completes) = 1

Wrote(op) == embedReply'.op = op /\ embedReply'.success

\* the configuration a delete step removed
Deleted == CHOOSE id \in ConfigIds(LoadedStore) : id \notin ConfigIds(LoadedStore')

Refused ==
  /\ embedReply'.op \in WriteOps
  /\ IF embedReply'.op = "add"
       THEN Len(LoadedStore.configs) >= MAX_EMBEDDING_CONFIG_COUNT
       ELSE embedReply'.id \notin ConfigIds(LoadedStore)

\* C37: an add at the cap, and an update, delete or set-active naming an id
\* that is not in the store, return success false, leave the file as it was
\* and leave the embedding service as it was; and no write that returns
\* success false changes the file or resets the service.
C37_RefusedChangesNothing ==
  /\ [][Refused => ~embedReply'.success]_vars
  /\ [][embedReply'.op \in WriteOps /\ ~embedReply'.success
          => storeFile' = storeFile /\ embeddingService' = embeddingService]_vars

\* a delete of an unknown id was refused and the cached service is still there
C37_Witness ==
  /\ embedReply.op = "delete"
  /\ ~embedReply.success
  /\ embedReply.id \notin ConfigIds(LoadedStore)
  /\ LoadedStore.configs # << >>
  /\ embedReply.cached
  /\ embeddingService

\* ------------------------------------------------------------------------
\* The range of start_time and end_time
\* ------------------------------------------------------------------------
\* the filter of the call came from start_time / end_time
ExplicitCallDone ==
  /\ TimeCallDone
  /\ Parses(toolCall.params.start_time) \/ Parses(toolCall.params.end_time)

\* C38: a filter made from start_time and end_time is a range with
\* startTs <= endTs; a side that is not given, or given but not a date, is 0
\* for the start and the current time for the end.
C38_ExplicitRangeWellFormed ==
  ExplicitCallDone =>
    /\ toolReply.filter # None
    /\ toolReply.filter[1].startTs <= toolReply.filter[1].endTs
    /\ ~Parses(toolCall.params.start_time) => toolReply.filter[1].startTs = 0
    /\ ~Parses(toolCall.params.end_time) => toolReply.filter[1].endTs = toolCall.now

=============================================================================
